---- MODULE Spec2Model ----
(***************************************************************************)
(* Climate simulator, recommendation generator and growth projector of    *)
(* the poultry-house application: calculateInsideTemperature,              *)
(* generateRecommendations and calculateGrowthProjections                  *)
(* (src/unnamed/part_006) with their constants (src/unnamed/part_005),     *)
(* the farm, equipment, mortality and calculate-environment routes         *)
(* (src/unnamed/part_007) over MemStorage (server/storage.ts) and the      *)
(* schemas of shared/schema.ts, and applyAISuggestions of the client       *)
(* (client/src/components/ai-recommendations.tsx).                         *)
(*                                                                         *)
(* JavaScript numbers are modelled as exact rationals [n, d] in lowest     *)
(* terms (d > 0); the value undefined/null is the record with d = 0.       *)
(* The relative humidity, whose exact value needs more than 32 bits, is    *)
(* kept as a mixed number in hundredths of a percent (see HumScale).       *)
(* TLC integers are 32 bits wide: the inputs explored are chosen so that   *)
(* every intermediate numerator and denominator fits.                      *)
(***************************************************************************)
EXTENDS Integers, Sequences, FiniteSets, TLC

\* ------------------------------------------------------------------------
\* Numbers
\* ------------------------------------------------------------------------
Abs(x) == IF x < 0 THEN -x ELSE x

RECURSIVE GCD(_, _)
GCD(a, b) == IF b = 0 THEN a ELSE GCD(b, a % b)

Norm(n, d) ==
  LET g == GCD(Abs(n), d) IN [n |-> n \div g, d |-> d \div g]

R(n, d) == Norm(n, d)
I(k) == [n |-> k, d |-> 1]
Zero == I(0)
Undefined == [n |-> 0, d |-> 0]

RAdd(x, y) ==
  LET g == GCD(x.d, y.d)
      l == (x.d \div g) * y.d
  IN  Norm(x.n * (l \div x.d) + y.n * (l \div y.d), l)

RNeg(x) == [n |-> -x.n, d |-> x.d]
RSub(x, y) == RAdd(x, RNeg(y))

RMul(x, y) ==
  LET g1 == GCD(Abs(x.n), y.d)
      g2 == GCD(Abs(y.n), x.d)
  IN  Norm((x.n \div g1) * (y.n \div g2), (x.d \div g2) * (y.d \div g1))

\* x / y for y # 0
RDiv(x, y) ==
  IF y.n > 0 THEN RMul(x, [n |-> y.d, d |-> y.n])
             ELSE RMul(x, [n |-> -y.d, d |-> -y.n])

\* comparisons on the least common denominator
RCmp(x, y) ==
  LET g == GCD(x.d, y.d)
      l == (x.d \div g) * y.d
  IN  x.n * (l \div x.d) - y.n * (l \div y.d)

RLt(x, y) == RCmp(x, y) < 0
RLe(x, y) == RCmp(x, y) <= 0
RGt(x, y) == RCmp(x, y) > 0
RGe(x, y) == RCmp(x, y) >= 0
RMin(x, y) == IF RLe(x, y) THEN x ELSE y
RMax(x, y) == IF RGe(x, y) THEN x ELSE y

\* Math.floor(x)
Floor(x) == x.n \div x.d

\* Math.round(x * 10) / 10 : nearest tenth, ties towards +infinity
Round1(x) ==
  LET w == x.n \div x.d
      r == x.n % x.d
  IN  R(10 * w + ((20 * r + x.d) \div (2 * x.d)), 10)

\* the JavaScript idiom  x || dflt  on a number that may be undefined or 0
OrElse(x, dflt) == IF x = Undefined \/ x.n = 0 THEN dflt ELSE x

\* ------------------------------------------------------------------------
\* Relative humidity: a mixed number  (q + r/m) / 100  with 0 <= r < m,
\* q an integer count of hundredths of a percent.
\* ------------------------------------------------------------------------
Hum(x) ==
  [q |-> (100 * x.n) \div x.d, r |-> (100 * x.n) % x.d, m |-> x.d]

HumLt(h, t) == h.q < 100 * t
HumGt(h, t) == h.q > 100 * t \/ (h.q = 100 * t /\ h.r > 0)

\* floor and remainder of k * N / M for 0 <= k, 0 <= N < M, by doubling,
\* without ever forming k * N
RECURSIVE MulDiv(_, _, _)
MulDiv(k, N, M) ==
  IF k = 0 THEN [q |-> 0, r |-> 0]
  ELSE LET h  == MulDiv(k \div 2, N, M)
           c2 == h.r >= M - h.r
           q2 == 2 * h.q + (IF c2 THEN 1 ELSE 0)
           r2 == IF c2 THEN h.r - (M - h.r) ELSE h.r + h.r
           c1 == r2 >= M - N
       IN  IF k % 2 = 0 THEN [q |-> q2, r |-> r2]
           ELSE [q |-> q2 + (IF c1 THEN 1 ELSE 0),
                 r |-> IF c1 THEN r2 - (M - N) ELSE r2 + N]

\* h * a / b  for a humidity h given in whole hundredths and 0 < a < b
HumScale(h, a, b) ==
  LET g  == GCD(a.d, b.d)
      l  == (a.d \div g) * b.d
      N  == a.n * (l \div a.d)
      M  == b.n * (l \div b.d)
      g2 == GCD(N, M)
      md == MulDiv(h.q, N \div g2, M \div g2)
  IN  [q |-> md.q, r |-> md.r, m |-> M \div g2]

\* Math.round(h * 10) / 10
HumRound1(h) == R((h.q + 5) \div 10, 10)

\* ------------------------------------------------------------------------
\* constants.ts
\* ------------------------------------------------------------------------
AGE_TARGETS ==
  [k \in {0, 7, 14, 21, 28, 35} |->
     CASE k = 0  -> [tempMin |-> 32, tempMax |-> 35, humidity |-> 60, ventilation |-> 20]
       [] k = 7  -> [tempMin |-> 29, tempMax |-> 32, humidity |-> 60, ventilation |-> 25]
       [] k = 14 -> [tempMin |-> 27, tempMax |-> 30, humidity |-> 65, ventilation |-> 30]
       [] k = 21 -> [tempMin |-> 24, tempMax |-> 27, humidity |-> 65, ventilation |-> 35]
       [] k = 28 -> [tempMin |-> 21, tempMax |-> 24, humidity |-> 70, ventilation |-> 40]
       [] k = 35 -> [tempMin |-> 18, tempMax |-> 21, humidity |-> 70, ventilation |-> 45]]

EQUIPMENT_SPECS ==
  [fan    |-> [airflowFactor |-> R(85, 100), powerFactor |-> R(2, 100)],
   heater |-> [efficiencyFactor |-> R(8, 10), temperatureRise |-> R(5, 10)],
   inlet  |-> [velocityFactor |-> R(25, 10), coolingFactor |-> R(1, 10)]]

\* ------------------------------------------------------------------------
\* calculations.ts : generateRecommendations
\* ------------------------------------------------------------------------
\* x.toFixed(1) : nearest tenth of |x|, ties upwards, sign restored
ToFixed1(x) ==
  LET a == Abs(x.n)
      t == 10 * (a \div x.d) + ((20 * (a % x.d) + x.d) \div (2 * x.d))
  IN  R(IF x.n < 0 THEN -t ELSE t, 10)

HumToFixed1(h) == R((h.q + 5) \div 10, 10)

isActiveFan(eq) == eq.type = "fan" /\ eq.isActive
isActiveHeater(eq) == eq.type = "heater" /\ eq.isActive
isInlet(eq) == eq.type = "inlet"

ageKeyOf(age) == Floor(RDiv(age, I(7))) * 7

\* variant: ages past the table fall back to the first band
targetsOf_FirstBand(age) ==
  LET ageKey == ageKeyOf(age)
  IN  IF ageKey \in DOMAIN AGE_TARGETS THEN AGE_TARGETS[ageKey] ELSE AGE_TARGETS[0]

targetsOf(age) ==
  LET ageKey == ageKeyOf(age)
  IN  IF ageKey \in DOMAIN AGE_TARGETS THEN AGE_TARGETS[ageKey] ELSE AGE_TARGETS[35]

\* variant: a temperature on a limit of the band is outside it
temperatureRule_Inclusive(insideTemp, targets, age) ==
  IF RLe(insideTemp, I(targets.tempMin))
  THEN <<[type |-> "warning", title |-> "Temperature Below Target",
          message |-> <<>>, action |-> "temperature_low"]>>
  ELSE IF RGe(insideTemp, I(targets.tempMax))
  THEN <<[type |-> "warning", title |-> "Temperature Above Target",
          message |-> <<>>, action |-> "temperature_high"]>>
  ELSE <<[type |-> "success", title |-> "Temperature Optimal",
          message |-> <<>>, action |-> "temperature_good"]>>

\* variant: no advisory when the temperature is inside the band
temperatureRule_NoGood(insideTemp, targets, age) ==
  IF RLt(insideTemp, I(targets.tempMin))
  THEN <<[type |-> "warning", title |-> "Temperature Below Target",
          message |-> <<>>, action |-> "temperature_low"]>>
  ELSE IF RGt(insideTemp, I(targets.tempMax))
  THEN <<[type |-> "warning", title |-> "Temperature Above Target",
          message |-> <<>>, action |-> "temperature_high"]>>
  ELSE <<>>

temperatureRule(insideTemp, targets, age) ==
  IF RLt(insideTemp, I(targets.tempMin))
  THEN <<[type |-> "warning", title |-> "Temperature Below Target",
          message |-> <<ToFixed1(insideTemp),
                        ToFixed1(RSub(I(targets.tempMin), insideTemp)),
                        I(targets.tempMin), I(targets.tempMax)>>,
          action |-> "temperature_low"]>>
  ELSE IF RGt(insideTemp, I(targets.tempMax))
  THEN <<[type |-> "warning", title |-> "Temperature Above Target",
          message |-> <<ToFixed1(insideTemp),
                        ToFixed1(RSub(insideTemp, I(targets.tempMax))),
                        I(targets.tempMin), I(targets.tempMax)>>,
          action |-> "temperature_high"]>>
  ELSE <<[type |-> "success", title |-> "Temperature Optimal",
          message |-> <<ToFixed1(insideTemp), age>>,
          action |-> "temperature_good"]>>

\* variant: the humidity thresholds are inclusive
humidityRule_Inclusive(insideHumidity, targets) ==
  IF ~HumGt(insideHumidity, targets.humidity - 10)
  THEN <<[type |-> "info", title |-> "Humidity Low",
          message |-> <<HumToFixed1(insideHumidity)>>,
          action |-> "humidity_low"]>>
  ELSE IF ~HumLt(insideHumidity, targets.humidity + 15)
  THEN <<[type |-> "info", title |-> "Humidity High",
          message |-> <<HumToFixed1(insideHumidity)>>,
          action |-> "humidity_high"]>>
  ELSE <<>>

humidityRule(insideHumidity, targets) ==
  IF HumLt(insideHumidity, targets.humidity - 10)
  THEN <<[type |-> "info", title |-> "Humidity Low",
          message |-> <<HumToFixed1(insideHumidity)>>,
          action |-> "humidity_low"]>>
  ELSE IF HumGt(insideHumidity, targets.humidity + 15)
  THEN <<[type |-> "info", title |-> "Humidity High",
          message |-> <<HumToFixed1(insideHumidity)>>,
          action |-> "humidity_high"]>>
  ELSE <<>>

\* variant: the energy advisory ignores the temperature
energyRule_AnyTemp(totalHeating, insideTemp, targets) ==
  IF RGt(totalHeating, I(10))
  THEN <<[type |-> "info", title |-> "Energy Optimization",
          message |-> <<>>, action |-> "optimize_energy"]>>
  ELSE <<>>

energyRule(totalHeating, insideTemp, targets) ==
  IF RGt(totalHeating, I(10)) /\ RGt(insideTemp, I(targets.tempMax))
  THEN <<[type |-> "info", title |-> "Energy Optimization",
          message |-> <<>>, action |-> "optimize_energy"]>>
  ELSE <<>>

fansRule(equipment, insideTemp, targets) ==
  LET activeFans == SelectSeq(equipment, isActiveFan)
  IN  IF Len(activeFans) > 1 /\ RGe(insideTemp, I(targets.tempMin))
                             /\ RLe(insideTemp, I(targets.tempMax))
      THEN <<[type |-> "info", title |-> "Equipment Optimization",
              message |-> <<>>, action |-> "optimize_fans"]>>
      ELSE <<>>

\* variant: the heating advisory is measured against tempMax
heatingRule_BelowMax(equipment, insideTemp, targets) ==
  LET activeHeaters == SelectSeq(equipment, isActiveHeater)
  IN  IF Len(activeHeaters) = 0 /\ RLt(insideTemp, I(targets.tempMax - 2))
      THEN <<[type |-> "warning", title |-> "Heating Required",
              message |-> <<>>, action |-> "activate_heating"]>>
      ELSE <<>>

heatingRule(equipment, insideTemp, targets) ==
  LET activeHeaters == SelectSeq(equipment, isActiveHeater)
  IN  IF Len(activeHeaters) = 0 /\ RLt(insideTemp, I(targets.tempMin - 2))
      THEN <<[type |-> "warning", title |-> "Heating Required",
              message |-> <<>>, action |-> "activate_heating"]>>
      ELSE <<>>

\* variant: the humidity advisory is pushed before the temperature advisory
generateRecommendations_HumidityFirst(insideTemp, insideHumidity, age, totalHeating, totalCooling, equipment) ==
  LET targets == targetsOf(age)
  IN  humidityRule(insideHumidity, targets)
        \o temperatureRule(insideTemp, targets, age)
        \o energyRule(totalHeating, insideTemp, targets)
        \o fansRule(equipment, insideTemp, targets)
        \o heatingRule(equipment, insideTemp, targets)

generateRecommendations(insideTemp, insideHumidity, age, totalHeating, totalCooling, equipment) ==
  LET targets == targetsOf(age)
  IN  temperatureRule(insideTemp, targets, age)
        \o humidityRule(insideHumidity, targets)
        \o energyRule(totalHeating, insideTemp, targets)
        \o fansRule(equipment, insideTemp, targets)
        \o heatingRule(equipment, insideTemp, targets)

\* ------------------------------------------------------------------------
\* calculations.ts : calculateInsideTemperature
\* ------------------------------------------------------------------------
RECURSIVE RSum(_)
RSum(s) == IF s = <<>> THEN Zero ELSE RAdd(RSum(SubSeq(s, 1, Len(s) - 1)), s[Len(s)])

\* variant: the setting is taken as a factor, not as a percentage
heaterOutput_NoPercent(heater) ==
  LET power   == OrElse(heater.specification.power, Zero)
      setting == OrElse(heater.currentSetting, Zero)
  IN  RMul(power, setting)

heaterOutput(heater) ==
  LET power   == OrElse(heater.specification.power, Zero)
      setting == OrElse(heater.currentSetting, Zero)
  IN  RDiv(RMul(power, setting), I(100))

\* variant: heaters count whether switched on or not
totalHeatingOf_AllHeaters(equipment) ==
  LET heaters == SelectSeq(equipment, LAMBDA eq : eq.type = "heater")
  IN  RSum([i \in 1..Len(heaters) |-> heaterOutput(heaters[i])])

totalHeatingOf(equipment) ==
  LET activeHeaters == SelectSeq(equipment, isActiveHeater)
  IN  RSum([i \in 1..Len(activeHeaters) |-> heaterOutput(activeHeaters[i])])

\* variant: the rise per kW is left out
heatingEffectOf_NoRise(totalHeating, volume) ==
  RDiv(RMul(totalHeating, EQUIPMENT_SPECS.heater.efficiencyFactor),
       RDiv(volume, I(100)))

heatingEffectOf(totalHeating, volume) ==
  RDiv(RMul(RMul(totalHeating, EQUIPMENT_SPECS.heater.efficiencyFactor),
            EQUIPMENT_SPECS.heater.temperatureRise),
       RDiv(volume, I(100)))

fanAirflow(fan) ==
  LET diameter == OrElse(fan.specification.diameter, Zero)
      setting  == OrElse(fan.currentSetting, Zero)
  IN  RDiv(RMul(RMul(diameter, EQUIPMENT_SPECS.fan.airflowFactor), setting), I(100))

totalCoolingOf(equipment) ==
  LET activeFans == SelectSeq(equipment, isActiveFan)
  IN  RSum([i \in 1..Len(activeFans) |-> fanAirflow(activeFans[i])])

\* variant: the cooling is not capped by the excess over the outside temperature
coolingEffectOf_NoMin(totalCooling, insideTemp, outsideTemp, volume) ==
  RDiv(RMul(RMul(totalCooling, R(1, 1000)),
            RMax(RSub(insideTemp, outsideTemp), Zero)),
       volume)

\* variant: the fans cool by their airflow alone, whatever the excess
coolingEffectOf_Absolute(totalCooling, insideTemp, outsideTemp, volume) ==
  RDiv(RMul(totalCooling, R(1, 1000)), volume)

coolingEffectOf(totalCooling, insideTemp, outsideTemp, volume) ==
  RMin(RDiv(RMul(RMul(totalCooling, R(1, 1000)),
                 RMax(RSub(insideTemp, outsideTemp), Zero)),
            volume),
       RSub(insideTemp, outsideTemp))

inletCooling(inlet, windSpeed) ==
  LET surface  == OrElse(inlet.specification.surface, Zero)
      opening  == OrElse(inlet.currentSetting, Zero)
      velocity == RDiv(RMul(opening, EQUIPMENT_SPECS.inlet.velocityFactor), I(100))
  IN  RMul(RMul(RMul(velocity, EQUIPMENT_SPECS.inlet.coolingFactor), windSpeed),
           R(1, 10))

\* variant: only the active inlets ventilate
ventilationEffectOf_ActiveOnly(equipment, windSpeed) ==
  LET isActiveInlet(eq) == eq.type = "inlet" /\ eq.isActive
      inlets == SelectSeq(equipment, isActiveInlet)
  IN  RSum([i \in 1..Len(inlets) |-> inletCooling(inlets[i], windSpeed)])

ventilationEffectOf(equipment, windSpeed) ==
  LET inlets == SelectSeq(equipment, isInlet)
  IN  RSum([i \in 1..Len(inlets) |-> inletCooling(inlets[i], windSpeed)])

KELVIN == R(27315, 100)

\* variant: the scaled humidity is not clamped
insideHumidityOf_NoClamp(insideTemp, outsideTemp, outsideHumidity) ==
  IF RGt(insideTemp, outsideTemp)
  THEN HumScale(Hum(outsideHumidity), RAdd(outsideTemp, KELVIN),
                RAdd(insideTemp, KELVIN))
  ELSE Hum(outsideHumidity)

\* variant: the clamp is applied after the branch, to both outcomes
insideHumidityOf_ClampAlways(insideTemp, outsideTemp, outsideHumidity) ==
  LET h == IF RGt(insideTemp, outsideTemp)
           THEN HumScale(Hum(outsideHumidity), RAdd(outsideTemp, KELVIN),
                         RAdd(insideTemp, KELVIN))
           ELSE Hum(outsideHumidity)
      lo == IF HumLt(h, 30) THEN Hum(I(30)) ELSE h
  IN  IF HumGt(lo, 100) THEN Hum(I(100)) ELSE lo

insideHumidityOf(insideTemp, outsideTemp, outsideHumidity) ==
  IF RGt(insideTemp, outsideTemp)
  THEN LET h == HumScale(Hum(outsideHumidity), RAdd(outsideTemp, KELVIN),
                         RAdd(insideTemp, KELVIN))
           lo == IF HumLt(h, 30) THEN Hum(I(30)) ELSE h
       IN  IF HumGt(lo, 100) THEN Hum(I(100)) ELSE lo
  ELSE Hum(outsideHumidity)

\* every local of calculateInsideTemperature at its return statement
locals(farm, equipment, outsideTemp, outsideHumidity, windSpeed, flockAge) ==
  LET volume == RMul(RMul(farm.length, farm.width), farm.height)
      surfaceArea ==
        RMul(I(2), RAdd(RAdd(RMul(farm.length, farm.width),
                             RMul(farm.length, farm.height)),
                        RMul(farm.width, farm.height)))
      totalHeating == totalHeatingOf(equipment)
      heatingEffect == heatingEffectOf(totalHeating, volume)
      afterHeating == RAdd(outsideTemp, heatingEffect)
      totalCooling == totalCoolingOf(equipment)
      coolingEffect == coolingEffectOf(totalCooling, afterHeating, outsideTemp, volume)
      afterCooling == RSub(afterHeating, coolingEffect)
      ventilationEffect == ventilationEffectOf(equipment, windSpeed)
      insideTemp == RSub(afterCooling, ventilationEffect)
      insideHumidity == insideHumidityOf(insideTemp, outsideTemp, outsideHumidity)
      age == OrElse(flockAge, I(18))
  IN  [volume |-> volume, surfaceArea |-> surfaceArea,
       totalHeating |-> totalHeating, heatingEffect |-> heatingEffect,
       afterHeating |-> afterHeating,
       totalCooling |-> totalCooling, coolingEffect |-> coolingEffect,
       afterCooling |-> afterCooling,
       ventilationEffect |-> ventilationEffect,
       insideTemp |-> insideTemp, insideHumidity |-> insideHumidity,
       age |-> age,
       recommendations |->
         generateRecommendations(insideTemp, insideHumidity, age,
                                 totalHeating, totalCooling, equipment)]

\* the return statement
returned(v) ==
      [insideTemp |-> Round1(v.insideTemp),
       insideHumidity |-> HumRound1(v.insideHumidity),
       totalHeating |-> v.totalHeating,
       totalCooling |-> v.totalCooling,
       ventilationEffect |-> Round1(v.ventilationEffect),
       recommendations |-> v.recommendations,
       volume |-> v.volume,
       surfaceArea |-> Round1(v.surfaceArea)]

calculateInsideTemperature(farm, equipment, outsideTemp, outsideHumidity, windSpeed, flockAge) ==
  returned(locals(farm, equipment, outsideTemp, outsideHumidity, windSpeed, flockAge))

\* ------------------------------------------------------------------------
\* Inputs explored
\* ------------------------------------------------------------------------
MaxEquip == 2

noSpec == [diameter |-> Undefined, power |-> Undefined, surface |-> Undefined]

device(type, isActive, setting, spec) ==
  [type |-> type, isActive |-> isActive, currentSetting |-> setting,
   specification |-> spec]

Devices ==
  { device("heater", TRUE,  I(45),  [noSpec EXCEPT !.power = I(15)]),
    device("heater", FALSE, I(100), [noSpec EXCEPT !.power = I(15)]),
    device("heater", TRUE,  I(100), noSpec),
    device("fan",    TRUE,  I(100), [noSpec EXCEPT !.diameter = I(120)]),
    device("fan",    FALSE, I(100), [noSpec EXCEPT !.diameter = I(120)]),
    device("fan",    TRUE,  I(50),  [noSpec EXCEPT !.diameter = I(60)]),
    device("fan",    TRUE,  I(100), noSpec),
    device("inlet",  TRUE,  I(100), [noSpec EXCEPT !.surface = I(2)]),
    device("inlet",  FALSE, I(100), [noSpec EXCEPT !.surface = I(2)]),
    device("inlet",  TRUE,  I(100), noSpec) }

EquipmentLists == UNION { [1..k -> Devices] : k \in 0..MaxEquip }

Farms ==
  { [length |-> I(24), width |-> I(12), height |-> R(7, 2)],
    [length |-> R(1, 2), width |-> R(1, 2), height |-> R(2, 5)] }

OutsideTemps == { I(22), I(28), I(35) }
OutsideHumidities == { I(20), I(45), R(4527, 100) }
WindSpeeds == { I(10), I(12) }
FlockAges == { Undefined, I(0), I(18) }

\* ------------------------------------------------------------------------
\* One call of calculateInsideTemperature
\* ------------------------------------------------------------------------
VARIABLES pc, args, env, result, storage

vars == <<pc, args, env, result, storage>>

None == [none |-> TRUE]

Init ==
  /\ pc = "ready"
  /\ args \in [farm : Farms, equipment : EquipmentLists,
               outsideTemp : OutsideTemps, outsideHumidity : OutsideHumidities,
               windSpeed : WindSpeeds, flockAge : FlockAges]
  /\ env = None
  /\ result = None
  /\ storage = None

CalculateInsideTemperature ==
  /\ pc = "ready"
  /\ env' = locals(args.farm, args.equipment, args.outsideTemp,
                   args.outsideHumidity, args.windSpeed, args.flockAge)
  /\ result' = returned(env')
  /\ pc' = "done"
  /\ UNCHANGED <<args, storage>>

Next == CalculateInsideTemperature

Spec == Init /\ [][Next]_vars

\* ------------------------------------------------------------------------
\* One direct call of generateRecommendations
\* ------------------------------------------------------------------------
MaxAge == 44

RecAges == { I(k) : k \in 0..MaxAge } \cup { I(-1), R(13, 2) }
RecTemps == { I(k) : k \in 15..36 }
RecHumidities == { Hum(I(k)) : k \in { 45, 55, 80, 90 } }
RecHeatings == { Zero, I(10), R(27, 2) }

RecDevices ==
  { device("heater", TRUE,  I(45),  [noSpec EXCEPT !.power = I(15)]),
    device("fan",    TRUE,  I(100), [noSpec EXCEPT !.diameter = I(120)]),
    device("fan",    FALSE, I(100), [noSpec EXCEPT !.diameter = I(120)]) }

RecEquipmentLists == UNION { [1..k -> RecDevices] : k \in 0..MaxEquip }

RecInit ==
  /\ pc = "ready"
  /\ args \in [insideTemp : RecTemps, insideHumidity : RecHumidities,
               age : RecAges, totalHeating : RecHeatings,
               totalCooling : { Zero }, equipment : RecEquipmentLists]
  /\ env = None
  /\ result = None
  /\ storage = None

GenerateRecommendations ==
  /\ pc = "ready"
  /\ env' = [ageKey |-> ageKeyOf(args.age), targets |-> targetsOf(args.age)]
  /\ result' = generateRecommendations(args.insideTemp, args.insideHumidity,
                   args.age, args.totalHeating, args.totalCooling,
                   args.equipment)
  /\ pc' = "done"
  /\ UNCHANGED <<args, storage>>

RecNext == GenerateRecommendations

SpecRec == RecInit /\ [][RecNext]_vars

\* ------------------------------------------------------------------------
\* Properties of generateRecommendations (checked under SpecRec)
\* ------------------------------------------------------------------------
TemperatureActions == { "temperature_low", "temperature_high", "temperature_good" }

TemperatureAdvisories(recs) ==
  { i \in DOMAIN recs : recs[i].action \in TemperatureActions }

HasAction(recs, a) == \E i \in DOMAIN recs : recs[i].action = a

\* the advisory a temperature earns against the band [tmin, tmax]
Classify(temp, tmin, tmax) ==
  IF RLt(temp, I(tmin)) THEN "temperature_low"
  ELSE IF RGt(temp, I(tmax)) THEN "temperature_high"
  ELSE "temperature_good"

\* C1: whatever insideTemp, insideHumidity, age, totalHeating and equipment
\* list it is given, generateRecommendations returns a non-empty list that
\* holds exactly one advisory whose action is temperature_low,
\* temperature_high or temperature_good.
C1_ExactlyOneTemperatureAdvisory ==
  pc = "done" =>
    /\ Len(result) > 0
    /\ Cardinality(TemperatureAdvisories(result)) = 1

\* a call with an age outside the table (negative) that returns the
\* temperature advisory together with two other advisories
C1_Witness ==
  /\ pc = "done"
  /\ args.age = I(-1)
  /\ Len(result) = 3
  /\ Cardinality(TemperatureAdvisories(result)) = 1

\* the band the table holds for each week of age, written out
BandOfWeek(age) ==
  IF RLt(age, I(7))  THEN [tempMin |-> 32, tempMax |-> 35, humidity |-> 60]
  ELSE IF RLt(age, I(14)) THEN [tempMin |-> 29, tempMax |-> 32, humidity |-> 60]
  ELSE IF RLt(age, I(21)) THEN [tempMin |-> 27, tempMax |-> 30, humidity |-> 65]
  ELSE IF RLt(age, I(28)) THEN [tempMin |-> 24, tempMax |-> 27, humidity |-> 65]
  ELSE IF RLt(age, I(35)) THEN [tempMin |-> 21, tempMax |-> 24, humidity |-> 70]
  ELSE [tempMin |-> 18, tempMax |-> 21, humidity |-> 70]

\* C10: for every age from 0 to 41 generateRecommendations uses the band
\* keyed by floor(age/7)*7, and for every age of 42 or more the band of key
\* 35 (tempMin 18, tempMax 21, humidity 70); the temperature advisory it
\* returns is the classification of insideTemp against that band.
C10_BandOfAge ==
  pc = "done" /\ RGe(args.age, Zero) =>
    LET band == BandOfWeek(args.age)
    IN  /\ env.targets.tempMin = band.tempMin
        /\ env.targets.tempMax = band.tempMax
        /\ env.targets.humidity = band.humidity
        /\ RGe(args.age, I(42)) => env.targets = AGE_TARGETS[35]
        /\ HasAction(result, Classify(args.insideTemp, band.tempMin, band.tempMax))

\* an age past the table (42 or more) classified against the band 18..21
C10_Witness ==
  /\ pc = "done"
  /\ RGe(args.age, I(42))
  /\ env.ageKey = 42
  /\ env.targets.tempMax = 21
  /\ args.insideTemp = I(22)
  /\ HasAction(result, "temperature_high")

\* ------------------------------------------------------------------------
\* Properties of calculateInsideTemperature (checked under Spec)
\* ------------------------------------------------------------------------
InRange(x, lo, hi) == RGe(x, I(lo)) /\ RLe(x, I(hi))

NoActive(equipment, type) ==
  \A i \in DOMAIN equipment :
    ~(equipment[i].type = type /\ equipment[i].isActive = TRUE)

\* the humidity the claims describe: the outside humidity scaled by the
\* ratio of absolute temperatures and clamped to [30, 100] when the house is
\* warmer than the outside, the outside humidity itself otherwise
ScaledHumidity ==
  LET h == HumScale(Hum(args.outsideHumidity), RAdd(args.outsideTemp, R(27315, 100)),
                    RAdd(env.insideTemp, R(27315, 100)))
  IN  IF h.q < 3000 THEN [q |-> 3000, r |-> 0, m |-> 1]
      ELSE IF h.q > 10000 \/ (h.q = 10000 /\ h.r > 0)
           THEN [q |-> 10000, r |-> 0, m |-> 1]
      ELSE h

\* h, a mixed number of hundredths, is the rational x
SameHumidity(h, x) == h.r = 0 /\ R(h.q, 100) = x

\* C2 as stated: for every call (any equipment list, outsideTemp,
\* outsideHumidity and windSpeed, volume > 0) the returned insideHumidity
\* lies within [30, 100].
C2_HumidityAlwaysInRange ==
  pc = "done" => InRange(result.insideHumidity, 30, 100)

\* C2 amended: the returned insideHumidity lies within [30, 100] whenever the
\* computed insideTemp is greater than outsideTemp or outsideHumidity itself
\* lies within [30, 100]; in the remaining case it is outsideHumidity
\* rounded to one decimal, not clamped.
C2_HumidityInRangeWhenWarmer ==
  pc = "done" =>
    /\ (RGt(env.insideTemp, args.outsideTemp) \/ InRange(args.outsideHumidity, 30, 100))
         => InRange(result.insideHumidity, 30, 100)
    /\ (~RGt(env.insideTemp, args.outsideTemp) /\ ~InRange(args.outsideHumidity, 30, 100))
         => result.insideHumidity = Round1(args.outsideHumidity)

\* a heated house under a dry outside air (20 %): the scaled humidity falls
\* below 30 and is returned as 30
C2_Witness ==
  /\ pc = "done"
  /\ args.outsideHumidity = I(20)
  /\ RGt(env.insideTemp, args.outsideTemp)
  /\ result.insideHumidity = I(30)

\* C3 as stated: when the computed insideTemp is greater than outsideTemp the
\* returned insideHumidity is outsideHumidity*(outsideTemp+273.15)/
\* (insideTemp+273.15) clamped to [30, 100]; otherwise the returned
\* insideHumidity equals outsideHumidity exactly.
C3_HumidityExact ==
  pc = "done" =>
    IF RGt(env.insideTemp, args.outsideTemp)
    THEN SameHumidity(ScaledHumidity, result.insideHumidity)
    ELSE result.insideHumidity = args.outsideHumidity

\* C3 amended: the returned insideHumidity is that value rounded to one
\* decimal place: the scaled and clamped humidity when the computed
\* insideTemp is greater than outsideTemp, outsideHumidity otherwise.
C3_HumidityRounded ==
  pc = "done" =>
    IF RGt(env.insideTemp, args.outsideTemp)
    THEN /\ result.insideHumidity = R((ScaledHumidity.q + 5) \div 10, 10)
         /\ InRange(result.insideHumidity, 30, 100)
    ELSE result.insideHumidity = Round1(args.outsideHumidity)

\* a heated house under an outside humidity of 45.27: the scaled humidity
\* stays inside (30, 100), is no whole tenth, and is returned rounded
C3_Witness ==
  /\ pc = "done"
  /\ args.outsideHumidity = R(4527, 100)
  /\ RGt(env.insideTemp, args.outsideTemp)
  /\ ScaledHumidity.q > 3000
  /\ ScaledHumidity.r > 0
  /\ RLt(result.insideHumidity, args.outsideHumidity)

\* C4 as stated: with no active heater and no active fan the returned fields
\* satisfy insideTemp = outsideTemp - ventilationEffect.
C4_ReturnedIdentity ==
  pc = "done" /\ NoActive(args.equipment, "heater") /\ NoActive(args.equipment, "fan") =>
    result.insideTemp = RSub(args.outsideTemp, result.ventilationEffect)

\* C4 amended: with no active heater and no active fan the heating and
\* cooling terms are exactly zero and the identity holds before rounding:
\* the computed insideTemp equals outsideTemp minus the computed
\* ventilationEffect, and the returned insideTemp is that value rounded to
\* one decimal (the returned fields are rounded separately).
C4_UnroundedIdentity ==
  pc = "done" /\ NoActive(args.equipment, "heater") /\ NoActive(args.equipment, "fan") =>
    /\ env.afterHeating = args.outsideTemp
    /\ env.afterCooling = args.outsideTemp
    /\ env.insideTemp = RSub(args.outsideTemp, env.ventilationEffect)
    /\ result.insideTemp = Round1(RSub(args.outsideTemp, env.ventilationEffect))
    /\ result.ventilationEffect = Round1(env.ventilationEffect)

\* a switched-off heater and a switched-off fan beside an open inlet: the
\* house is cooler than the outside by the ventilation effect alone
C4_Witness ==
  /\ pc = "done"
  /\ NoActive(args.equipment, "heater") /\ NoActive(args.equipment, "fan")
  /\ \E i \in DOMAIN args.equipment :
       args.equipment[i].type = "heater" /\ args.equipment[i].specification.power = I(15)
  /\ \E i \in DOMAIN args.equipment : args.equipment[i].type = "inlet"
  /\ RLt(env.insideTemp, args.outsideTemp)

\* C5: for every equipment list and volume > 0 the running insideTemp right
\* after the fan-cooling step is never below outsideTemp, whatever the
\* number, diameter and setting of the active fans.
C5_CoolingNeverBelowOutside ==
  pc = "done" /\ RGt(env.volume, Zero) =>
    /\ RGe(env.afterCooling, args.outsideTemp)
    /\ RLe(env.coolingEffect, RSub(env.afterHeating, args.outsideTemp))

\* a heated house whose fans could remove more than the excess: the cap
\* binds, and the temperature after cooling is the outside temperature
C5_Witness ==
  /\ pc = "done"
  /\ RGt(env.heatingEffect, Zero)
  /\ RGt(RDiv(RMul(env.totalCooling, R(1, 1000)), env.volume), I(1))
  /\ env.coolingEffect = env.heatingEffect
  /\ env.afterCooling = args.outsideTemp

ScenarioFarm == [length |-> I(24), width |-> I(12), height |-> R(7, 2)]

Fan120 == device("fan", TRUE, I(100), [noSpec EXCEPT !.diameter = I(120)])

Heater15 == device("heater", TRUE, I(45), [noSpec EXCEPT !.power = I(15)])

ScenarioA ==
  /\ args.farm = ScenarioFarm
  /\ args.equipment = <<Heater15>>
  /\ args.outsideTemp = I(22)
  /\ args.outsideHumidity = I(45)
  /\ args.windSpeed = I(12)
  /\ args.flockAge = I(18)

ScenarioB ==
  /\ args.farm = ScenarioFarm
  /\ args.equipment = <<Fan120, Fan120>>
  /\ args.outsideTemp = I(35)

\* C6 as stated (Scenario B): enclosure 24 x 12 x 3.5, two active fans of
\* diameter 120 at setting 100, no heater, outsideTemp 35: totalCooling > 0,
\* insideTemp strictly below outsideTemp, insideHumidity equal to
\* outsideHumidity.
C6_ScenarioBStrictlyCooler ==
  pc = "done" /\ ScenarioB =>
    /\ RGt(result.totalCooling, Zero)
    /\ RLt(result.insideTemp, args.outsideTemp)
    /\ result.insideHumidity = args.outsideHumidity

\* C6 amended (Scenario B): totalCooling is 204 > 0, the cooling effect is 0
\* because nothing heats the house, insideTemp equals outsideTemp (35, not
\* strictly below it), and insideHumidity is outsideHumidity rounded to one
\* decimal.
C6_ScenarioBEqualTemp ==
  pc = "done" /\ ScenarioB =>
    /\ result.totalCooling = I(204)
    /\ env.coolingEffect = Zero
    /\ env.insideTemp = args.outsideTemp
    /\ result.insideTemp = I(35)
    /\ result.insideHumidity = Round1(args.outsideHumidity)

\* Scenario B run with the outside humidity 45 of the scenarios
C6_Witness ==
  /\ pc = "done"
  /\ ScenarioB
  /\ args.outsideHumidity = I(45)
  /\ result.totalCooling = I(204)
  /\ result.insideTemp = I(35)
  /\ result.insideHumidity = I(45)

\* the ventilation effect of the documentation: each inlet contributes
\* surface * (2.5/100 * setting) * 0.1 * windSpeed * 0.1
RECURSIVE SurfaceVentilation(_, _)
SurfaceVentilation(equipment, windSpeed) ==
  IF equipment = <<>> THEN Zero
  ELSE LET eq == Head(equipment)
           surface == IF eq.specification.surface = Undefined THEN Zero
                      ELSE eq.specification.surface
           setting == IF eq.currentSetting = Undefined THEN Zero
                      ELSE eq.currentSetting
           part == IF eq.type = "inlet"
                   THEN RMul(RMul(RMul(RMul(surface, RMul(R(25, 1000), setting)),
                                       R(1, 10)), windSpeed), R(1, 10))
                   ELSE Zero
       IN  RAdd(part, SurfaceVentilation(Tail(equipment), windSpeed))

\* C7: the ventilationEffect computed by calculateInsideTemperature is the sum
\* over inlets of surface * (2.5/100 * setting) * 0.1 * windSpeed * 0.1, so an
\* inlet whose surface is 0 or missing contributes 0.
C7_VentilationUsesSurface ==
  pc = "done" =>
    env.ventilationEffect = SurfaceVentilation(args.equipment, args.windSpeed)

\* what one device adds to a total: rating * setting / 100 * factor when it
\* is of the given type and switched on, 0 otherwise
Contribution(eq, type, rating, factor) ==
  IF eq.type = type /\ eq.isActive = TRUE /\ rating # Undefined
     /\ eq.currentSetting # Undefined
  THEN RMul(R(rating.n * eq.currentSetting.n, rating.d * eq.currentSetting.d * 100),
            factor)
  ELSE Zero

RECURSIVE ActiveHeaterSum(_)
ActiveHeaterSum(equipment) ==
  IF equipment = <<>> THEN Zero
  ELSE RAdd(Contribution(Head(equipment), "heater",
                         Head(equipment).specification.power, I(1)),
            ActiveHeaterSum(Tail(equipment)))

RECURSIVE ActiveFanSum(_)
ActiveFanSum(equipment) ==
  IF equipment = <<>> THEN Zero
  ELSE RAdd(Contribution(Head(equipment), "fan",
                         Head(equipment).specification.diameter, R(85, 100)),
            ActiveFanSum(Tail(equipment)))

\* C8: totalHeating is the sum of power * setting / 100 over the heaters with
\* isActive true, totalCooling the sum of diameter * 0.85 * setting / 100 over
\* the fans with isActive true; inactive equipment, equipment of another type
\* and missing specification fields contribute 0; in Scenario A (one active
\* heater, power 15, setting 45) totalHeating is 6.75.
C8_TotalsOverActiveEquipment ==
  pc = "done" =>
    /\ result.totalHeating = ActiveHeaterSum(args.equipment)
    /\ result.totalCooling = ActiveFanSum(args.equipment)
    /\ ScenarioA => result.totalHeating = R(675, 100) /\ result.totalCooling = Zero

\* an active heater beside a switched-off heater of the same rating: only
\* the active one counts
C8_Witness ==
  /\ pc = "done"
  /\ \E i, j \in DOMAIN args.equipment :
       /\ args.equipment[i] = Heater15
       /\ args.equipment[j].type = "heater"
       /\ args.equipment[j].isActive = FALSE
       /\ args.equipment[j].specification.power = I(15)
  /\ result.totalHeating = R(675, 100)

\* C9: calculateInsideTemperature classifies against the target band of the
\* flockAge it is given, for every supplied flockAge including 0 (band
\* tempMin 32, tempMax 35); the age 18 is used only when flockAge is absent.
C9_BandOfSuppliedAge ==
  pc = "done" =>
    IF args.flockAge = Undefined
    THEN env.age = I(18)
    ELSE /\ env.age = args.flockAge
         /\ HasAction(result.recommendations,
                      Classify(env.insideTemp, BandOfWeek(args.flockAge).tempMin,
                               BandOfWeek(args.flockAge).tempMax))

\* ------------------------------------------------------------------------
\* One direct call of generateRecommendations on a flock in its third week
\* (band 27..30, humidity 65), over inputs on each side of every threshold
\* ------------------------------------------------------------------------
ProbeTemps == { I(24), I(26), I(28), I(31) }

ProbeEquipment ==
  LET heater == device("heater", TRUE, I(45),  [noSpec EXCEPT !.power = I(15)])
      fan    == device("fan",    TRUE, I(100), [noSpec EXCEPT !.diameter = I(120)])
  IN  { <<>>, <<heater>>, <<fan>>, <<fan, fan>>, <<heater, fan>> }

ProbeAges == { I(14), I(18), I(20) }

ProbeHumidities == { Hum(I(50)), Hum(I(65)), Hum(I(85)) }
ProbeHeatings == { I(10), R(27, 2) }

ProbeArgs ==
  [insideTemp : ProbeTemps, insideHumidity : ProbeHumidities, age : ProbeAges,
   totalHeating : ProbeHeatings, totalCooling : { Zero },
   equipment : ProbeEquipment]

ProbeInit ==
  /\ pc = "ready"
  /\ args \in ProbeArgs
  /\ env = None
  /\ result = None
  /\ storage = None

ProbeNext == GenerateRecommendations

SpecProbe == ProbeInit /\ [][ProbeNext]_vars

SecondaryActions ==
  { "humidity_low", "humidity_high", "optimize_energy", "optimize_fans",
    "activate_heating" }

HumidityActions == { "humidity_low", "humidity_high" }
EquipmentActions == { "optimize_energy", "optimize_fans", "activate_heating" }

ActionsOf(recs) == { recs[i].action : i \in DOMAIN recs }

SecondaryOf(recs) == ActionsOf(recs) \cap SecondaryActions

\* recs is one temperature advisory and exactly the secondary advisories S
ExactlyWith(recs, S) ==
  /\ SecondaryOf(recs) = S
  /\ Cardinality(TemperatureAdvisories(recs)) = 1
  /\ Len(recs) = Cardinality(S) + 1

\* the lists generateRecommendations returns for a flock of the given age
ProbeReturns(age) ==
  { generateRecommendations(a.insideTemp, a.insideHumidity, a.age,
                            a.totalHeating, a.totalCooling, a.equipment)
      : a \in { b \in ProbeArgs : b.age = age } }

\* the subsets S for which some input of that age returns exactly S next to
\* one temperature advisory
AchievedSubsets(age) ==
  { SecondaryOf(recs) :
      recs \in { r \in ProbeReturns(age) : ExactlyWith(r, SecondaryOf(r)) } }

\* at most one humidity advisory and at most one of optimize_energy,
\* optimize_fans, activate_heating
Admissible(S) ==
  /\ Cardinality(S \cap HumidityActions) <= 1
  /\ Cardinality(S \cap EquipmentActions) <= 1

\* C11 as stated: for every subset S of {humidity_low, humidity_high,
\* optimize_energy, optimize_fans, activate_heating} there are inputs for
\* which generateRecommendations returns exactly the advisories of S in
\* addition to exactly one temperature advisory (inputs sought at the age
\* of the call at hand).
C11_EverySubsetAchievable ==
  AchievedSubsets(args.age) = SUBSET SecondaryActions

\* C11 (amended): the subsets S for which some input makes
\* generateRecommendations return exactly the advisories of S next to one
\* temperature advisory are exactly those with at most one humidity
\* advisory and at most one of optimize_energy, optimize_fans,
\* activate_heating (12 of the 32); every returned list is of that shape.
C11_AdmissibleSubsetsAchievable ==
  /\ AchievedSubsets(args.age)
       = { S \in SUBSET SecondaryActions : Admissible(S) }
  /\ pc = "done" =>
       /\ Admissible(SecondaryOf(result))
       /\ ExactlyWith(result, SecondaryOf(result))

\* a call that returns a humidity advisory and an equipment advisory next
\* to the temperature advisory
C11_Witness ==
  /\ pc = "done"
  /\ args \in ProbeArgs
  /\ ExactlyWith(result, { "humidity_high", "optimize_energy" })
  /\ result[1].action = "temperature_high"

\* ------------------------------------------------------------------------
\* calculations.ts : calculateGrowthProjections
\* ------------------------------------------------------------------------
\* Math.round(x) : nearest integer, ties upwards
Round0(x) == I(Floor(RAdd(x, R(1, 2))))

\* Math.round(x * 100) / 100
Round2(x) == R(Floor(RAdd(RMul(x, I(100)), R(1, 2))), 100)

\* the largest k in lo..hi with k * k <= x
RECURSIVE ISqrtIn(_, _, _)
ISqrtIn(x, lo, hi) ==
  IF lo = hi THEN lo
  ELSE LET mid == (lo + hi + 1) \div 2
       IN  IF mid * mid <= x THEN ISqrtIn(x, mid, hi) ELSE ISqrtIn(x, lo, mid - 1)

\* Math.pow(age, 1.5) for a whole age >= 0, to the 1/64 below; exact when
\* age is a square
Pow15(age) == R(ISqrtIn(age.n * age.n * age.n * 4096, 0, 46340), 64)

getStandardWeight(age) ==
  RAdd(RAdd(I(40), RMul(age, I(20))), RMul(Pow15(age), I(2)))

\* variant: no lower limit on the daily gain
baseGrowthRateOf_NoFloor(currentAge) == RSub(I(50), RMul(currentAge, R(8, 10)))

baseGrowthRateOf(currentAge) ==
  RMax(I(10), RSub(I(50), RMul(currentAge, R(8, 10))))

\* variant: only the first advisory is looked at
hasGoodTempOf_First(recommendations) ==
  Len(recommendations) > 0 /\ recommendations[1].action = "temperature_good"

hasGoodTempOf(recommendations) ==
  \E i \in DOMAIN recommendations : recommendations[i].action = "temperature_good"

\* variant: a 20% reduction outside the optimal band
environmentalFactorOf_Fifth(hasGoodTemp) ==
  IF ~hasGoodTemp THEN RMul(I(1), R(80, 100)) ELSE I(1)

environmentalFactorOf(hasGoodTemp) ==
  IF ~hasGoodTemp THEN RMul(I(1), R(85, 100)) ELSE I(1)

\* variant: the age term weighs ten times more
fcrOf_Tenth(currentAge, hasGoodTemp) ==
  RAdd(RAdd(R(12, 10), RMul(currentAge, R(1, 10))),
       IF hasGoodTemp THEN Zero ELSE R(2, 10))

fcrOf(currentAge, hasGoodTemp) ==
  RAdd(RAdd(R(12, 10), RMul(currentAge, R(1, 100))),
       IF hasGoodTemp THEN Zero ELSE R(2, 10))

\* the local variables of calculateGrowthProjections before it returns
growthLocals(flock, currentEnvironment) ==
  LET currentAge == flock.currentAge
      averageWeight == flock.averageWeight
      baseGrowthRate == baseGrowthRateOf(currentAge)
      hasGoodTemp == hasGoodTempOf(currentEnvironment.recommendations)
      environmentalFactor == environmentalFactorOf(hasGoodTemp)
      standardWeight == getStandardWeight(currentAge)
  IN  [baseGrowthRate |-> baseGrowthRate,
       environmentalFactor |-> environmentalFactor,
       hasGoodTemp |-> hasGoodTemp,
       projectedWeight7d |->
         RAdd(averageWeight, RMul(RMul(baseGrowthRate, environmentalFactor), I(7))),
       projectedWeight14d |->
         RAdd(averageWeight, RMul(RMul(baseGrowthRate, environmentalFactor), I(14))),
       standardWeight |-> standardWeight,
       growthRateVsStandard |->
         RMul(RSub(RDiv(averageWeight, standardWeight), I(1)), I(100)),
       fcr |-> fcrOf(currentAge, hasGoodTemp)]

growthReturned(v) ==
  [projectedWeight7d |-> Round0(v.projectedWeight7d),
   projectedWeight14d |-> Round0(v.projectedWeight14d),
   growthRateVsStandard |-> Round1(v.growthRateVsStandard),
   fcr |-> Round2(v.fcr),
   environmentalFactor |-> Round2(v.environmentalFactor)]

calculateGrowthProjections(flock, currentEnvironment) == growthReturned(growthLocals(flock, currentEnvironment))

\* ------------------------------------------------------------------------
\* One call of calculateGrowthProjections
\* ------------------------------------------------------------------------
MaxGrowthAge == 70
MaxRecs == 2

advisory(action) ==
  [type |-> IF action = "temperature_good" THEN "success"
            ELSE IF action \in { "temperature_low", "temperature_high" }
            THEN "warning" ELSE "info",
   title |-> action, message |-> <<>>, action |-> action]

GrowthAdvisories ==
  { advisory(a) : a \in { "temperature_good", "temperature_low",
                          "temperature_high", "humidity_low", "optimize_fans" } }

GrowthAdvisoryLists == UNION { [1..k -> GrowthAdvisories] : k \in 0..MaxRecs }

GrowthAges == { I(k) : k \in 0..MaxGrowthAge }
GrowthWeights == { I(40), I(485), R(971, 2), R(4853, 10), I(2500) }

Flocks ==
  [currentAge : GrowthAges, averageWeight : GrowthWeights, chickCount : { 1250 }]

GrowthInit ==
  /\ pc = "ready"
  /\ args \in [flock : Flocks,
               currentEnvironment : [recommendations : GrowthAdvisoryLists]]
  /\ env = None
  /\ result = None
  /\ storage = None

CalculateGrowthProjections ==
  /\ pc = "ready"
  /\ env' = growthLocals(args.flock, args.currentEnvironment)
  /\ result' = growthReturned(env')
  /\ pc' = "done"
  /\ UNCHANGED <<args, storage>>

GrowthNext == CalculateGrowthProjections

SpecGrowth == GrowthInit /\ [][GrowthNext]_vars

\* ------------------------------------------------------------------------
\* Properties of calculateGrowthProjections (checked under SpecGrowth)
\* ------------------------------------------------------------------------
\* C12: calculateGrowthProjections returns environmentalFactor 1.0 if and
\* only if the recommendations of the supplied environment contain an
\* advisory with action temperature_good, and 0.85 in every other case; no
\* other value is ever returned.
C12_EnvironmentalFactor ==
  pc = "done" =>
    LET recs == args.currentEnvironment.recommendations
    IN  /\ result.environmentalFactor \in { I(1), R(85, 100) }
        /\ result.environmentalFactor = I(1) <=> HasAction(recs, "temperature_good")
        /\ result.environmentalFactor = R(85, 100) <=> ~HasAction(recs, "temperature_good")

\* a call whose advisory list holds temperature_good, but not in first
\* place, and returns 1.0
C12_Witness ==
  /\ pc = "done"
  /\ Len(args.currentEnvironment.recommendations) = 2
  /\ args.currentEnvironment.recommendations[1].action = "humidity_low"
  /\ args.currentEnvironment.recommendations[2].action = "temperature_good"
  /\ result.environmentalFactor = I(1)

\* C13: calculateGrowthProjections returns fcr = 1.2 + age*0.01 + p rounded
\* to 2 decimals, where p is 0 when a temperature_good advisory is present
\* and 0.2 otherwise.
C13_Fcr ==
  pc = "done" =>
    LET age == args.flock.currentAge.n
        p == IF HasAction(args.currentEnvironment.recommendations, "temperature_good")
             THEN 0 ELSE 20
    IN  result.fcr = R(120 + age + p, 100)

\* Scenario D: age 42, weight 485, no temperature_good advisory: fcr 1.82
\* and environmentalFactor 0.85
C13_Witness ==
  /\ pc = "done"
  /\ args.flock.currentAge = I(42)
  /\ args.flock.averageWeight = I(485)
  /\ ~HasAction(args.currentEnvironment.recommendations, "temperature_good")
  /\ result.fcr = R(182, 100)
  /\ result.environmentalFactor = R(85, 100)

\* C14: for every flock with currentAge >= 0 and every advisory list, the
\* result of calculateGrowthProjections satisfies
\* projectedWeight14d >= projectedWeight7d >= averageWeight.
C14_ProjectionsOrdered ==
  pc = "done" /\ RGe(args.flock.currentAge, Zero) =>
    /\ RGe(result.projectedWeight14d, result.projectedWeight7d)
    /\ RGe(result.projectedWeight7d, args.flock.averageWeight)

\* a flock past 62.5 days, where 50 - age*0.8 is negative and the daily gain
\* is held at 10, outside the optimal band
C14_Witness ==
  /\ pc = "done"
  /\ RGt(args.flock.currentAge, R(125, 2))
  /\ env.baseGrowthRate = I(10)
  /\ env.environmentalFactor = R(85, 100)
  /\ RGt(result.projectedWeight14d, result.projectedWeight7d)
  /\ RGt(result.projectedWeight7d, args.flock.averageWeight)

\* averageWeight + max(10, 50 - age*0.8) * environmentalFactor * days
ProjectedWeight(flock, recs, days) ==
  LET rate == IF RGe(RSub(I(50), RMul(flock.currentAge, R(4, 5))), I(10))
              THEN RSub(I(50), RMul(flock.currentAge, R(4, 5))) ELSE I(10)
      factor == IF HasAction(recs, "temperature_good") THEN I(1) ELSE R(17, 20)
  IN  RAdd(flock.averageWeight, RMul(RMul(rate, factor), I(days)))

\* C15 as stated: the projectedWeight7d and projectedWeight14d returned by
\* calculateGrowthProjections equal averageWeight + max(10, 50 - age*0.8) *
\* environmentalFactor * days for days = 7 and days = 14 respectively.
C15_ProjectionExact ==
  pc = "done" =>
    LET recs == args.currentEnvironment.recommendations
    IN  /\ result.projectedWeight7d = ProjectedWeight(args.flock, recs, 7)
        /\ result.projectedWeight14d = ProjectedWeight(args.flock, recs, 14)

\* C15 (amended): the returned projectedWeight7d and projectedWeight14d are
\* averageWeight + max(10, 50 - age*0.8) * environmentalFactor * days for
\* days = 7 and 14, each rounded to the nearest integer (ties upwards).
C15_ProjectionRounded ==
  pc = "done" =>
    LET recs == args.currentEnvironment.recommendations
    IN  /\ result.projectedWeight7d = Round0(ProjectedWeight(args.flock, recs, 7))
        /\ result.projectedWeight14d = Round0(ProjectedWeight(args.flock, recs, 14))

\* age 42, weight 485, no temperature_good: 485 + 16.4 * 0.85 * 7 = 582.58
\* is returned as 583, and 680.16 as 680
C15_Witness ==
  /\ pc = "done"
  /\ args.flock.currentAge = I(42)
  /\ args.flock.averageWeight = I(485)
  /\ env.projectedWeight7d = R(58258, 100)
  /\ result.projectedWeight7d = I(583)
  /\ env.projectedWeight14d = R(68016, 100)
  /\ result.projectedWeight14d = I(680)

\* ------------------------------------------------------------------------
\* Order and conditions of the advisories (checked under SpecRec)
\* ------------------------------------------------------------------------
\* the place of an action in the fixed order; 0 for an unknown action
Rank(action) ==
  IF action \in TemperatureActions THEN 1
  ELSE IF action = "humidity_low" THEN 2
  ELSE IF action = "humidity_high" THEN 3
  ELSE IF action = "optimize_energy" THEN 4
  ELSE IF action = "optimize_fans" THEN 5
  ELSE IF action = "activate_heating" THEN 6
  ELSE 0

\* C19: the list returned by generateRecommendations is always a
\* duplicate-free subsequence of the fixed order [temperature advisory,
\* humidity_low, humidity_high, optimize_energy, optimize_fans,
\* activate_heating]; in particular the temperature advisory is always the
\* first element.
C19_FixedOrder ==
  pc = "done" =>
    /\ Len(result) >= 1
    /\ result[1].action \in TemperatureActions
    /\ \A i \in DOMAIN result : Rank(result[i].action) > 0
    /\ \A i, j \in DOMAIN result :
         i < j => Rank(result[i].action) < Rank(result[j].action)

\* a list of three advisories: temperature, humidity, equipment
C19_Witness ==
  /\ pc = "done"
  /\ Len(result) = 3
  /\ result[1].action = "temperature_good"
  /\ result[2].action = "humidity_low"
  /\ result[3].action = "optimize_fans"

ActiveCount(equipment, type) ==
  Cardinality({ i \in DOMAIN equipment :
                  equipment[i].type = type /\ equipment[i].isActive })

\* C20: each secondary advisory is present if and only if its predicate
\* holds, with strict thresholds: humidity_low iff insideHumidity <
\* band.humidity - 10; humidity_high iff insideHumidity > band.humidity + 15;
\* optimize_energy iff totalHeating > 10 and insideTemp > band.tempMax;
\* optimize_fans iff more than one fan is active and band.tempMin <=
\* insideTemp <= band.tempMax; activate_heating iff no heater is active and
\* insideTemp < band.tempMin - 2.
C20_SecondaryPredicates ==
  pc = "done" =>
    LET band == env.targets
        temp == args.insideTemp
    IN  /\ HasAction(result, "humidity_low")
             <=> HumLt(args.insideHumidity, band.humidity - 10)
        /\ HasAction(result, "humidity_high")
             <=> HumGt(args.insideHumidity, band.humidity + 15)
        /\ HasAction(result, "optimize_energy")
             <=> (RGt(args.totalHeating, I(10)) /\ RGt(temp, I(band.tempMax)))
        /\ HasAction(result, "optimize_fans")
             <=> (/\ ActiveCount(args.equipment, "fan") > 1
                  /\ RLe(I(band.tempMin), temp)
                  /\ RLe(temp, I(band.tempMax)))
        /\ HasAction(result, "activate_heating")
             <=> (/\ ActiveCount(args.equipment, "heater") = 0
                  /\ RLt(temp, I(band.tempMin - 2)))

\* a call on the thresholds themselves: humidity exactly band.humidity + 15,
\* totalHeating exactly 10 and a temperature above the band, which earns the
\* temperature advisory alone
C20_Witness ==
  /\ pc = "done"
  /\ args.insideHumidity = Hum(I(env.targets.humidity + 15))
  /\ args.totalHeating = I(10)
  /\ RGt(args.insideTemp, I(env.targets.tempMax))
  /\ Len(result) = 1
  /\ result[1].action = "temperature_high"

\* ------------------------------------------------------------------------
\* server/storage.ts : MemStorage (farms, flocks, equipment, mortality
\*                     records, daily checklists)
\* shared/schema.ts  : insertFarmSchema, insertEquipmentSchema,
\*                     updateEquipmentSchema
\* server/routes.ts  : POST and PATCH of /api/farms and /api/equipment
\* A request body is a record holding the keys the client sent; ids stand
\* for the values of randomUUID(), createdAt is left out.
\* ------------------------------------------------------------------------
MaxRequests == 2

\* { ...a, ...b }
Merge(a, b) ==
  [k \in DOMAIN a \cup DOMAIN b |-> IF k \in DOMAIN b THEN b[k] ELSE a[k]]

\* the keys of body a schema picks
Pick(body, keys) == [k \in DOMAIN body \cap keys |-> body[k]]

\* rec.currentSetting, undefined when the record has no such key
settingOf(rec) ==
  IF "currentSetting" \in DOMAIN rec THEN rec.currentSetting ELSE Undefined

\* MemStorage after its constructor: the sample farm and its five devices
initializeData ==
  LET farmId == 1
      sample(id, type, name, spec) ==
        [id |-> id, farmId |-> farmId, type |-> type, name |-> name,
         specification |-> spec,
         isActive |-> type \in { "fan", "heater" },
         currentSetting |-> IF type = "fan" THEN I(75)
                            ELSE IF type = "heater" THEN I(45) ELSE I(30)]
  IN  [farms |-> (farmId :> [id |-> farmId, name |-> "Main Farm",
                             length |-> I(24), width |-> I(12),
                             height |-> R(7, 2)]),
       equipment |->
         (2 :> sample(2, "fan", "Fan 1",
                      [noSpec EXCEPT !.diameter = I(120), !.power = R(28, 10)]))
         @@ (3 :> sample(3, "fan", "Fan 2",
                         [noSpec EXCEPT !.diameter = I(100), !.power = R(21, 10)]))
         @@ (4 :> sample(4, "heater", "Heater 1", [noSpec EXCEPT !.power = I(15)]))
         @@ (5 :> sample(5, "heater", "Heater 2", [noSpec EXCEPT !.power = I(12)]))
         @@ (6 :> sample(6, "inlet", "Air Inlet System",
                         [noSpec EXCEPT !.surface = R(24, 10)])),
       flocks |-> (7 :> [id |-> 7, farmId |-> farmId, name |-> "Batch A",
                         chickCount |-> 1250, initialChickCount |-> 1300,
                         currentAge |-> 18, averageWeight |-> I(485)]),
       mortalityRecords |-> <<>>,
       dailyChecklists |-> <<>>,
       nextId |-> 8]

\* insertFarmSchema.parse : name, length, width and height are required
insertFarmSchema(body) ==
  LET keys == { "name", "length", "width", "height" }
  IN  IF keys \subseteq DOMAIN body
      THEN [success |-> TRUE, data |-> Pick(body, keys)]
      ELSE [success |-> FALSE]

\* insertEquipmentSchema.parse : type and name are required, the other
\* columns are optional and any number is a currentSetting
insertEquipmentSchema(body) ==
  LET keys == { "farmId", "type", "name", "specification", "isActive",
                "currentSetting" }
  IN  IF { "type", "name" } \subseteq DOMAIN body
      THEN [success |-> TRUE, data |-> Pick(body, keys)]
      ELSE [success |-> FALSE]

\* variant: the update schema does not bound currentSetting
updateEquipmentSchema_NoRange(body) ==
  [success |-> TRUE, data |-> Pick(body, { "isActive", "currentSetting" })]

\* updateEquipmentSchema.parse : both keys optional, currentSetting a number
\* of 0..100
updateEquipmentSchema(body) ==
  LET keys == { "isActive", "currentSetting" }
  IN  IF "currentSetting" \in DOMAIN body
           => (RGe(body.currentSetting, I(0)) /\ RLe(body.currentSetting, I(100)))
      THEN [success |-> TRUE, data |-> Pick(body, keys)]
      ELSE [success |-> FALSE]

Dimensions == { I(0), I(12) }

FarmBodies ==
  { [name |-> "House 2", length |-> l, width |-> w, height |-> h] :
      l \in Dimensions, w \in Dimensions \cup { I(-3) }, h \in Dimensions }
  \cup { [name |-> "House 2", length |-> I(12), width |-> I(12)] }

Settings == { I(-5), I(0), I(100), I(150) }

EquipmentBodies ==
  { [farmId |-> 1, type |-> "heater", name |-> "Heater 3",
     specification |-> [noSpec EXCEPT !.power = I(15)], isActive |-> TRUE,
     currentSetting |-> s] : s \in Settings }
  \cup { [farmId |-> 1, type |-> "fan", name |-> "Fan 3"],
         [farmId |-> 1, type |-> "fan", currentSetting |-> I(50)] }

EquipmentUpdates ==
  { [currentSetting |-> s] : s \in Settings }
  \cup { [isActive |-> b] : b \in BOOLEAN }
  \cup { [isActive |-> FALSE, currentSetting |-> s] : s \in Settings }
  \cup { <<>> }

\* ids a client may name: those handed out so far and one unknown
KnownIds == 1..storage.nextId

request(method, path, id, body) ==
  [method |-> method, path |-> path, id |-> id, body |-> body]

response(status, body) == [status |-> status, body |-> body]

ApiInit ==
  /\ pc = "listening"
  /\ args = None
  /\ env = [served |-> 0]
  /\ result = None
  /\ storage = initializeData

\* app.post("/api/farms") with MemStorage.createFarm
PostFarm ==
  /\ pc = "listening"
  /\ env.served < MaxRequests
  /\ \E body \in FarmBodies :
       LET farmData == insertFarmSchema(body)
           id == storage.nextId
           farm == Merge(farmData.data, [id |-> id])
       IN  /\ args' = request("POST", "/api/farms", 0, body)
           /\ IF farmData.success
              THEN /\ storage' = [storage EXCEPT !.farms = @ @@ (id :> farm),
                                                 !.nextId = @ + 1]
                   /\ result' = response(201, farm)
              ELSE /\ result' = response(400, [message |-> "Invalid farm data"])
                   /\ UNCHANGED storage
  /\ env' = [env EXCEPT !.served = @ + 1]
  /\ UNCHANGED pc

\* app.patch("/api/farms/:id") with MemStorage.updateFarm
PatchFarm ==
  /\ pc = "listening"
  /\ env.served < MaxRequests
  /\ \E id \in KnownIds, body \in FarmBodies :
       LET updateData == insertFarmSchema(body)
       IN  /\ args' = request("PATCH", "/api/farms/:id", id, body)
           /\ IF ~updateData.success
              THEN /\ result' = response(400, [message |-> "Invalid farm data"])
                   /\ UNCHANGED storage
              ELSE IF id \notin DOMAIN storage.farms
              THEN /\ result' = response(404, [message |-> "Farm not found"])
                   /\ UNCHANGED storage
              ELSE LET updated == Merge(storage.farms[id], updateData.data)
                   IN  /\ storage' = [storage EXCEPT !.farms[id] = updated]
                       /\ result' = response(200, updated)
  /\ env' = [env EXCEPT !.served = @ + 1]
  /\ UNCHANGED pc

\* app.post("/api/equipment") with MemStorage.createEquipment
PostEquipment ==
  /\ pc = "listening"
  /\ env.served < MaxRequests
  /\ \E body \in EquipmentBodies :
       LET equipmentData == insertEquipmentSchema(body)
           id == storage.nextId
           equipment == Merge(equipmentData.data, [id |-> id])
       IN  /\ args' = request("POST", "/api/equipment", 0, body)
           /\ IF equipmentData.success
              THEN /\ storage' = [storage EXCEPT
                                    !.equipment = @ @@ (id :> equipment),
                                    !.nextId = @ + 1]
                   /\ result' = response(201, equipment)
              ELSE /\ result' = response(400, [message |-> "Invalid equipment data"])
                   /\ UNCHANGED storage
  /\ env' = [env EXCEPT !.served = @ + 1]
  /\ UNCHANGED pc

\* app.patch("/api/equipment/:id") with MemStorage.updateEquipment
PatchEquipment ==
  /\ pc = "listening"
  /\ env.served < MaxRequests
  /\ \E id \in KnownIds, body \in EquipmentUpdates :
       LET updateData == updateEquipmentSchema(body)
       IN  /\ args' = request("PATCH", "/api/equipment/:id", id, body)
           /\ IF ~updateData.success
              THEN /\ result' = response(400, [message |-> "Invalid equipment data"])
                   /\ UNCHANGED storage
              ELSE IF id \notin DOMAIN storage.equipment
              THEN /\ result' = response(404, [message |-> "Equipment not found"])
                   /\ UNCHANGED storage
              ELSE LET updated == Merge(storage.equipment[id], updateData.data)
                   IN  /\ storage' = [storage EXCEPT !.equipment[id] = updated]
                       /\ result' = response(200, updated)
  /\ env' = [env EXCEPT !.served = @ + 1]
  /\ UNCHANGED pc

\* app.delete("/api/equipment/:id") with MemStorage.deleteEquipment
DeleteEquipment ==
  /\ pc = "listening"
  /\ env.served < MaxRequests
  /\ \E id \in KnownIds :
       LET deleted == id \in DOMAIN storage.equipment
       IN  /\ args' = request("DELETE", "/api/equipment/:id", id, <<>>)
           /\ IF ~deleted
              THEN /\ result' = response(404, [message |-> "Equipment not found"])
                   /\ UNCHANGED storage
              ELSE /\ storage' =
                        [storage EXCEPT !.equipment =
                           [i \in DOMAIN @ \ { id } |-> @[i]]]
                   /\ result' = response(200, [message |-> "Equipment deleted successfully"])
  /\ env' = [env EXCEPT !.served = @ + 1]
  /\ UNCHANGED pc

ApiNext ==
  PostFarm \/ PatchFarm \/ PostEquipment \/ PatchEquipment \/ DeleteEquipment

SpecApi == ApiInit /\ [][ApiNext]_vars

\* ------------------------------------------------------------------------
\* Properties of the stored records (checked under SpecApi)
\* ------------------------------------------------------------------------
\* C17: after any sequence of POST /api/equipment and PATCH
\* /api/equipment/:id requests, every equipment record held in storage has
\* a currentSetting within [0, 100] (a record stored without a setting is
\* read as 0 by the simulator and is not counted against the claim).
C17_StoredSettingInRange ==
  \A id \in DOMAIN storage.equipment :
    LET setting == settingOf(storage.equipment[id])
    IN  setting # Undefined => InRange(setting, 0, 100)

\* C18: after any sequence of POST /api/farms and PATCH /api/farms/:id
\* requests, every farm held in storage has length, width and height
\* strictly positive, so that length * width * height is never 0.
C18_StoredFarmPositive ==
  \A id \in DOMAIN storage.farms :
    LET farm == storage.farms[id]
    IN  /\ RGt(farm.length, Zero)
        /\ RGt(farm.width, Zero)
        /\ RGt(farm.height, Zero)
        /\ RMul(RMul(farm.length, farm.width), farm.height) # Zero

\* ------------------------------------------------------------------------
\* Inlets, heating step and advisory pairs
\* ------------------------------------------------------------------------
\* the same list with every inlet switched off
DeactivateInlets(equipment) ==
  [i \in DOMAIN equipment |->
     IF isInlet(equipment[i]) THEN [equipment[i] EXCEPT !.isActive = FALSE]
     ELSE equipment[i]]

\* C21 (checked under Spec): an inlet contributes the same amount to
\* ventilationEffect whether its isActive flag is true or false: the call
\* computes what it computes for the list with every inlet switched off, so
\* two lists that differ only in the isActive flags of inlets yield
\* identical results.
C21_InletActiveIrrelevant ==
  pc = "done" =>
    LET off == locals(args.farm, DeactivateInlets(args.equipment),
                      args.outsideTemp, args.outsideHumidity, args.windSpeed,
                      args.flockAge)
    IN  /\ env = off
        /\ result = returned(off)

\* a call whose only inlets are switched off and still ventilate
C21_Witness ==
  /\ pc = "done"
  /\ \E i \in DOMAIN args.equipment : isInlet(args.equipment[i])
  /\ \A i \in DOMAIN args.equipment :
       isInlet(args.equipment[i]) => ~args.equipment[i].isActive
  /\ RGt(env.ventilationEffect, Zero)
  /\ RGt(result.ventilationEffect, Zero)

\* C22 (checked under Spec): the heating step raises the running insideTemp
\* above outsideTemp by totalHeating * 0.8 * 0.5 / (volume / 100); in
\* Scenario A the returned temperature is above 22 and below 27 and the
\* advisory temperature_low is returned.
C22_HeatingStep ==
  pc = "done" =>
    /\ RSub(env.afterHeating, args.outsideTemp)
         = RDiv(RMul(RMul(env.totalHeating, R(8, 10)), R(5, 10)),
                RDiv(env.volume, I(100)))
    /\ RGe(env.afterHeating, args.outsideTemp)
    /\ ScenarioA =>
         /\ RGt(result.insideTemp, I(22))
         /\ RLt(result.insideTemp, I(27))
         /\ HasAction(result.recommendations, "temperature_low")

\* Scenario A: 6.75 kW in 1008 cubic metres raise 22 by 0.268 to 22.3
C22_Witness ==
  /\ pc = "done"
  /\ ScenarioA
  /\ env.totalHeating = R(27, 4)
  /\ env.heatingEffect = R(15, 56)
  /\ result.insideTemp = R(223, 10)
  /\ result.recommendations[1].action = "temperature_low"

\* C23 (checked under SpecRec): optimize_energy appears only together with
\* temperature_high, optimize_fans only with temperature_good,
\* activate_heating only with temperature_low; hence no two of
\* optimize_energy, optimize_fans, activate_heating appear together, and
\* humidity_low and humidity_high never appear together.
C23_AdvisoryPairs ==
  pc = "done" =>
    /\ HasAction(result, "optimize_energy") => HasAction(result, "temperature_high")
    /\ HasAction(result, "optimize_fans") => HasAction(result, "temperature_good")
    /\ HasAction(result, "activate_heating") => HasAction(result, "temperature_low")
    /\ Cardinality({ a \in EquipmentActions : HasAction(result, a) }) <= 1
    /\ ~(HasAction(result, "humidity_low") /\ HasAction(result, "humidity_high"))

\* a cold house without an active heater and with dry air: temperature_low,
\* humidity_low and activate_heating together
C23_Witness ==
  /\ pc = "done"
  /\ HasAction(result, "temperature_low")
  /\ HasAction(result, "humidity_low")
  /\ HasAction(result, "activate_heating")
  /\ Len(result) = 3

\* ------------------------------------------------------------------------
\* One call of calculateInsideTemperature with outside temperatures on and
\* next to the limits of the band 27..30
\* ------------------------------------------------------------------------
EdgeTemps ==
  { R(2696, 100), I(27), R(2704, 100), R(2996, 100), I(30), R(3004, 100) }

EdgeEquipment ==
  { <<>>, <<Heater15>>,
    <<device("inlet", TRUE, I(100), [noSpec EXCEPT !.surface = I(2)])>> }

EdgeInit ==
  /\ pc = "ready"
  /\ args \in [farm : { ScenarioFarm }, equipment : EdgeEquipment,
               outsideTemp : EdgeTemps, outsideHumidity : { I(45) },
               windSpeed : WindSpeeds, flockAge : { Undefined, I(18), I(20) }]
  /\ env = None
  /\ result = None
  /\ storage = None

EdgeNext == CalculateInsideTemperature

SpecEdge == EdgeInit /\ [][EdgeNext]_vars

\* C24 as stated: the temperature advisory agrees with the returned
\* insideTemp: with temperature_low the returned insideTemp is strictly
\* below band.tempMin, with temperature_high strictly above band.tempMax,
\* with temperature_good within [band.tempMin, band.tempMax].
C24_AdvisoryMatchesReturned ==
  pc = "done" =>
    LET band == targetsOf(env.age)
        recs == result.recommendations
    IN  /\ HasAction(recs, "temperature_low")
             => RLt(result.insideTemp, I(band.tempMin))
        /\ HasAction(recs, "temperature_high")
             => RGt(result.insideTemp, I(band.tempMax))
        /\ HasAction(recs, "temperature_good")
             => InRange(result.insideTemp, band.tempMin, band.tempMax)

\* C24 (amended): the temperature advisory is the classification of the
\* insideTemp before rounding; the returned insideTemp, rounded to one
\* decimal, may land on the limit: with temperature_low it is at most
\* band.tempMin, with temperature_high at least band.tempMax, with
\* temperature_good within [band.tempMin, band.tempMax].
C24_AdvisoryMatchesComputed ==
  pc = "done" =>
    LET band == targetsOf(env.age)
        recs == result.recommendations
    IN  /\ HasAction(recs, Classify(env.insideTemp, band.tempMin, band.tempMax))
        /\ Cardinality(TemperatureAdvisories(recs)) = 1
        /\ HasAction(recs, "temperature_low")
             => RLe(result.insideTemp, I(band.tempMin))
        /\ HasAction(recs, "temperature_high")
             => RGe(result.insideTemp, I(band.tempMax))
        /\ HasAction(recs, "temperature_good")
             => InRange(result.insideTemp, band.tempMin, band.tempMax)

\* 26.96 outside and no equipment: temperature_low next to a returned 27.0
C24_Witness ==
  /\ pc = "done"
  /\ env.insideTemp = R(2696, 100)
  /\ result.insideTemp = I(27)
  /\ targetsOf(env.age).tempMin = 27
  /\ HasAction(result.recommendations, "temperature_low")

\* ------------------------------------------------------------------------
\* Answers of the equipment routes (checked under SpecApi)
\* ------------------------------------------------------------------------
\* the request handled by this step is for /api/equipment/:id
EquipmentRequest(method) ==
  /\ env'.served = env.served + 1
  /\ args'.method = method
  /\ args'.path = "/api/equipment/:id"

OutOfRange(body) ==
  "currentSetting" \in DOMAIN body /\ ~InRange(body.currentSetting, 0, 100)

Untouched == storage'.equipment = storage.equipment

\* a PATCH with a currentSetting outside [0, 100] answers 400 and changes
\* nothing; a successful DELETE removes exactly that record
RejectsAndRemoves ==
  /\ EquipmentRequest("PATCH") /\ OutOfRange(args'.body)
       => result'.status = 400 /\ Untouched
  /\ EquipmentRequest("DELETE") /\ result'.status = 200
       => /\ args'.id \in DOMAIN storage.equipment
          /\ DOMAIN storage'.equipment = DOMAIN storage.equipment \ { args'.id }
          /\ \A i \in DOMAIN storage'.equipment :
               storage'.equipment[i] = storage.equipment[i]

\* C27 as stated: PATCH and DELETE of /api/equipment/:id for an id that is
\* not in storage answer 404 and leave the equipment map unchanged; PATCH
\* with a currentSetting outside [0, 100] answers 400 and leaves the map
\* unchanged; a successful DELETE removes exactly that record, so a second
\* DELETE of the same id answers 404.
C27_UnknownIdAnswers404 ==
  [][ /\ (EquipmentRequest("PATCH") \/ EquipmentRequest("DELETE"))
           /\ args'.id \notin DOMAIN storage.equipment
        => result'.status = 404 /\ Untouched
      /\ RejectsAndRemoves ]_vars

\* C27 (amended): the body is validated before the id is looked up: PATCH
\* with a currentSetting outside [0, 100] answers 400 whatever the id;
\* PATCH with a valid body and DELETE for an id that is not in storage
\* answer 404; none of these changes the equipment map; a successful DELETE
\* removes exactly that record, so a second DELETE of the same id answers
\* 404.
C27_ValidatedThenLookedUp ==
  [][ /\ EquipmentRequest("PATCH") /\ ~OutOfRange(args'.body)
           /\ args'.id \notin DOMAIN storage.equipment
        => result'.status = 404 /\ Untouched
      /\ EquipmentRequest("DELETE") /\ args'.id \notin DOMAIN storage.equipment
        => result'.status = 404 /\ Untouched
      /\ RejectsAndRemoves ]_vars

\* a second DELETE of a sample device, answered 404
C27_Witness ==
  /\ pc = "listening"
  /\ env.served > 1
  /\ args.method = "DELETE"
  /\ args.id \in DOMAIN initializeData.equipment
  /\ args.id \notin DOMAIN storage.equipment
  /\ result.status = 404

\* ------------------------------------------------------------------------
\* server/routes.ts : POST /api/mortality-records
\* server/storage.ts : MemStorage.createMortalityRecord
\* ------------------------------------------------------------------------
\* insertMortalitySchema.parse : deathCount is required and any integer;
\* flockId, cause and date are optional
insertMortalitySchema(body) ==
  LET keys == { "flockId", "deathCount", "cause", "date" }
  IN  IF "deathCount" \in DOMAIN body
      THEN [success |-> TRUE, data |-> Pick(body, keys)]
      ELSE [success |-> FALSE]

DeathCounts == { -5, 0, 3, 2000 }

\* flock ids a client may name: those in storage and one unknown
FlockIds == DOMAIN storage.flocks \cup { 0 }

MortalityBodies ==
  { [flockId |-> f, deathCount |-> d, cause |-> "heat stress"] :
      f \in FlockIds, d \in DeathCounts }
  \cup { [flockId |-> f, deathCount |-> d] : f \in FlockIds, d \in DeathCounts }
  \cup { [flockId |-> f, cause |-> "heat stress"] : f \in FlockIds }

\* Math.max(0, flock.chickCount - insertRecord.deathCount)
remainingChicks(chickCount, deathCount) ==
  IF chickCount - deathCount > 0 THEN chickCount - deathCount ELSE 0

\* app.post("/api/mortality-records") with MemStorage.createMortalityRecord
PostMortalityRecord ==
  /\ pc = "listening"
  /\ env.served < MaxRequests
  /\ \E body \in MortalityBodies :
       LET recordData == insertMortalitySchema(body)
           id == storage.nextId
           record == Merge(recordData.data, [id |-> id])
           found == { f \in DOMAIN storage.flocks :
                        "flockId" \in DOMAIN body /\ f = body.flockId }
       IN  /\ args' = request("POST", "/api/mortality-records", 0, body)
           /\ IF recordData.success
              THEN /\ storage' =
                        [storage EXCEPT
                           !.mortalityRecords = @ @@ (id :> record),
                           !.flocks = [f \in DOMAIN @ |->
                              IF f \in found
                              THEN [@[f] EXCEPT !.chickCount =
                                      remainingChicks(@, record.deathCount)]
                              ELSE @[f]],
                           !.nextId = @ + 1]
                   /\ result' = response(201, record)
              ELSE /\ result' = response(400, [message |-> "Invalid mortality record data"])
                   /\ UNCHANGED storage
  /\ env' = [env EXCEPT !.served = @ + 1]
  /\ UNCHANGED pc

FlockNext == PostMortalityRecord

SpecFlock == ApiInit /\ [][FlockNext]_vars

\* C25: every createMortalityRecord call accepted through POST
\* /api/mortality-records leaves the flock's chickCount within
\* [0, chickCount before the call], and changes no flock other than the one
\* named by flockId.
C25_ChickCountNeverGrows ==
  [][ /\ env'.served = env.served + 1
      /\ args'.path = "/api/mortality-records"
      /\ result'.status = 201
      => /\ DOMAIN storage'.flocks = DOMAIN storage.flocks
         /\ \A f \in DOMAIN storage.flocks :
              IF f = args'.body.flockId
              THEN /\ storage'.flocks[f].chickCount >= 0
                   /\ storage'.flocks[f].chickCount <= storage.flocks[f].chickCount
              ELSE storage'.flocks[f] = storage.flocks[f] ]_vars

\* ------------------------------------------------------------------------
\* server/storage.ts : MemStorage.updateChecklist, called MaxCalls times on
\* one calendar day. A call reads today's checklist when it is invoked and
\* is suspended by its await; it writes when it is resumed.
\* ------------------------------------------------------------------------
MaxCalls == 2

Calls == 1..MaxCalls

Today == "today"

TaskLists ==
  { <<>>,
    <<[id |-> "1", task |-> "Check water lines", completed |-> FALSE]>>,
    <<[id |-> "1", task |-> "Check water lines", completed |-> TRUE]>> }

ChecklistFarms == { 1, 0 }

\* ids of the checklists of a farm dated today, in insertion order
todaysChecklists(farmId) ==
  { k \in DOMAIN storage.dailyChecklists :
      /\ storage.dailyChecklists[k].farmId = farmId
      /\ storage.dailyChecklists[k].date = Today }

\* getTodaysChecklist : the first such checklist, 0 for undefined
getTodaysChecklist(farmId) ==
  LET found == todaysChecklists(farmId)
  IN  IF found = {} THEN 0
      ELSE CHOOSE k \in found : \A j \in found : k <= j

ChecklistInit ==
  /\ pc = [c \in Calls |-> "pending"]
  /\ args \in [Calls -> [farmId : ChecklistFarms, tasks : TaskLists]]
  /\ env = [existing |-> [c \in Calls |-> 0], completed |-> <<>>]
  /\ result = [c \in Calls |-> None]
  /\ storage = initializeData

\* line 324 up to the await: existing is read
InvokeUpdateChecklist(c) ==
  /\ pc[c] = "pending"
  /\ env' = [env EXCEPT !.existing[c] = getTodaysChecklist(args[c].farmId)]
  /\ pc' = [pc EXCEPT ![c] = "awaiting"]
  /\ UNCHANGED <<args, result, storage>>

\* lines 326-341 after the await: update the checklist read, or create one
ResumeUpdateChecklist(c) ==
  /\ pc[c] = "awaiting"
  /\ LET existing == env.existing[c]
         id == storage.nextId
         checklist == [id |-> id, farmId |-> args[c].farmId, date |-> Today,
                       tasks |-> args[c].tasks]
     IN  IF existing # 0
         THEN /\ storage' = [storage EXCEPT
                               !.dailyChecklists[existing].tasks = args[c].tasks]
              /\ result' = [result EXCEPT ![c] = storage'.dailyChecklists[existing]]
         ELSE /\ storage' = [storage EXCEPT
                               !.dailyChecklists = @ @@ (id :> checklist),
                               !.nextId = @ + 1]
              /\ result' = [result EXCEPT ![c] = checklist]
  /\ env' = [env EXCEPT !.completed = Append(@, c)]
  /\ pc' = [pc EXCEPT ![c] = "returned"]
  /\ UNCHANGED args

ChecklistNext ==
  \E c \in Calls : InvokeUpdateChecklist(c) \/ ResumeUpdateChecklist(c)

SpecChecklist == ChecklistInit /\ [][ChecklistNext]_vars

\* the last call completed for a farm, 0 when none has
LastCompleted(farmId) ==
  LET done == { i \in DOMAIN env.completed : args[env.completed[i]].farmId = farmId }
  IN  IF done = {} THEN 0
      ELSE env.completed[CHOOSE i \in done : \A j \in done : j <= i]

\* C26: under any interleaving of updateChecklist calls for the same farm on
\* the same calendar day, storage holds at most one checklist for that farm
\* and day, and after all calls have completed its tasks are those of the
\* call that completed last.
C26_OneChecklistPerFarmAndDay ==
  \A farmId \in ChecklistFarms :
    /\ Cardinality(todaysChecklists(farmId)) <= 1
    /\ (\A c \in Calls : pc[c] = "returned") /\ LastCompleted(farmId) # 0 =>
         \A k \in todaysChecklists(farmId) :
           storage.dailyChecklists[k].tasks = args[LastCompleted(farmId)].tasks

\* ------------------------------------------------------------------------
\* routes.ts : POST /api/calculate-environment
\* ------------------------------------------------------------------------
\* Math.PI is irrational; the handler is evaluated with a rational on either
\* side of it (3.14 < Math.PI < 22/7) and a request may see either one
MathPI == { R(157, 50), R(22, 7) }

\* the records of a farm whose id is i or more, by increasing id
RECURSIVE equipmentFrom(_, _)
equipmentFrom(i, farmId) ==
  IF i > storage.nextId THEN <<>>
  ELSE (IF i \in DOMAIN storage.equipment /\ storage.equipment[i].farmId = farmId
        THEN <<storage.equipment[i]>> ELSE <<>>)
       \o equipmentFrom(i + 1, farmId)

\* MemStorage.getEquipmentByFarm : the farm's records in insertion order,
\* which is the order of their ids
getEquipmentByFarm(farmId) == equipmentFrom(1, farmId)

\* eq.specification?.key
specOf(eq, key) ==
  IF "specification" \in DOMAIN eq THEN eq.specification[key] ELSE Undefined

\* power * setting / 100
routeHeaterOutput(heater) ==
  RDiv(RMul(OrElse(specOf(heater, "power"), Zero),
            OrElse(settingOf(heater), Zero)), I(100))

\* Math.PI * Math.pow(diameter / 200, 2) * setting * 50
routeAirflow(pi, fan) ==
  LET radius == RDiv(OrElse(specOf(fan, "diameter"), Zero), I(200))
  IN  RMul(RMul(RMul(pi, RMul(radius, radius)), OrElse(settingOf(fan), Zero)),
           I(50))

\* surface * opening / 100 * windSpeed * 0.1
routeInletEffect(inlet, windSpeed) ==
  RMul(RMul(RDiv(RMul(OrElse(specOf(inlet, "surface"), Zero),
                      OrElse(settingOf(inlet), Zero)), I(100)),
            windSpeed),
       R(1, 10))

\* variant: the target band follows the flockAge of the request
targetTempOf_ByAge(body) ==
  LET t == targetsOf(OrElse(IF "flockAge" \in DOMAIN body THEN body.flockAge
                            ELSE Undefined, I(18)))
  IN  [min |-> t.tempMin, max |-> t.tempMax]

\* const targetTempMin = 30; const targetTempMax = 32;
targetTempOf(body) == [min |-> 30, max |-> 32]

\* every local of the handler once the farm has been found
routeLocals(pi, farm, equipment, body) ==
  LET outsideTemp == body.outsideTemp
      volume == RMul(RMul(farm.length, farm.width), farm.height)
      surfaceArea ==
        RMul(I(2), RAdd(RAdd(RMul(farm.length, farm.width),
                             RMul(farm.length, farm.height)),
                        RMul(farm.width, farm.height)))
      activeHeaters == SelectSeq(equipment, isActiveHeater)
      totalHeating ==
        RSum([i \in 1..Len(activeHeaters) |-> routeHeaterOutput(activeHeaters[i])])
      afterHeating ==
        RAdd(outsideTemp,
             RDiv(RMul(totalHeating, R(8, 10)), RMul(volume, R(1, 1000))))
      activeFans == SelectSeq(equipment, isActiveFan)
      totalCooling ==
        RSum([i \in 1..Len(activeFans) |-> routeAirflow(pi, activeFans[i])])
      coolingEffect ==
        RDiv(RMul(RMul(totalCooling, R(1, 1000)),
                  RMax(RSub(afterHeating, outsideTemp), Zero)),
             volume)
      inlets == SelectSeq(equipment, isInlet)
      ventilationEffect ==
        RSum([i \in 1..Len(inlets) |-> routeInletEffect(inlets[i], body.windSpeed)])
      insideTemp == RSub(RSub(afterHeating, coolingEffect), ventilationEffect)
      insideHumidity ==
        IF RGt(insideTemp, outsideTemp)
        THEN HumScale(Hum(body.outsideHumidity), RAdd(outsideTemp, KELVIN),
                      RAdd(insideTemp, KELVIN))
        ELSE Hum(body.outsideHumidity)
      target == targetTempOf(body)
      temperature ==
        IF RLt(insideTemp, I(target.min))
        THEN [type |-> "warning", title |-> "Temperature Below Target",
              message |-> <<ToFixed1(insideTemp)>>, action |-> "temperature_low"]
        ELSE IF RGt(insideTemp, I(target.max))
        THEN [type |-> "warning", title |-> "Temperature Above Target",
              message |-> <<ToFixed1(insideTemp)>>, action |-> "temperature_high"]
        ELSE [type |-> "success", title |-> "Temperature Optimal",
              message |-> <<>>, action |-> "temperature_good"]
      energy ==
        IF RGt(totalHeating, I(10)) /\ RGt(insideTemp, I(target.max))
        THEN <<[type |-> "info", title |-> "Energy Optimization",
                message |-> <<>>, action |-> "optimize_energy"]>>
        ELSE <<>>
  IN  [volume |-> volume, surfaceArea |-> surfaceArea,
       totalHeating |-> totalHeating, totalCooling |-> totalCooling,
       ventilationEffect |-> ventilationEffect,
       insideTemp |-> insideTemp, insideHumidity |-> insideHumidity,
       recommendations |-> <<temperature>> \o energy]

\* the calculations object the handler sends
calculations(v) ==
  [insideTemp |-> Round1(v.insideTemp),
   insideHumidity |-> HumRound1(v.insideHumidity),
   totalHeating |-> v.totalHeating,
   totalCooling |-> v.totalCooling,
   ventilationEffect |-> Round1(v.ventilationEffect),
   recommendations |-> v.recommendations,
   volume |-> v.volume,
   surfaceArea |-> Round1(v.surfaceArea)]

\* the handler's answer to a request body
calculateEnvironment(pi, body) ==
  IF body.farmId \notin DOMAIN storage.farms
  THEN response(404, [message |-> "Farm not found"])
  ELSE response(200, calculations(routeLocals(pi, storage.farms[body.farmId],
                                              getEquipmentByFarm(body.farmId),
                                              body)))

CalcTemps == { I(18), I(22), I(24) }
CalcHumidities == { I(45), I(60) }
CalcWinds == { I(0), R(25, 2) }
CalcAges == { I(7), I(18), I(35) }

\* what the clients post: the four readings, with or without a flockAge,
\* for the sample farm, and one request for a farm that does not exist
CalcBodies ==
  LET readings ==
        { [farmId |-> 1, outsideTemp |-> t, outsideHumidity |-> h, windSpeed |-> w] :
            t \in CalcTemps, h \in CalcHumidities, w \in CalcWinds }
  IN  readings
      \cup { Merge(b, [flockAge |-> a]) : b \in readings, a \in CalcAges }
      \cup { [farmId |-> 0, outsideTemp |-> I(22), outsideHumidity |-> I(45),
              windSpeed |-> I(0), flockAge |-> I(18)] }

\* app.post("/api/calculate-environment")
PostCalculateEnvironment ==
  /\ pc = "listening"
  /\ env.served < MaxRequests
  /\ \E body \in CalcBodies, pi \in MathPI :
       /\ args' = request("POST", "/api/calculate-environment", 0, body)
       /\ result' = calculateEnvironment(pi, body)
       /\ env' = [served |-> env.served + 1, pi |-> pi]
  /\ UNCHANGED <<pc, storage>>

CalcNext == PostCalculateEnvironment \/ DeleteEquipment

SpecCalc == ApiInit /\ [][CalcNext]_vars

\* the request answered last is a calculation the handler completed
Calculated ==
  /\ env.served > 0
  /\ args.path = "/api/calculate-environment"
  /\ result.status = 200

\* the body of the last request with its flockAge replaced, or removed
WithAge(age) ==
  IF age = Undefined
  THEN [k \in DOMAIN args.body \ { "flockAge" } |-> args.body[k]]
  ELSE Merge(args.body, [flockAge |-> age])

activeOf(eq) == IF "isActive" \in DOMAIN eq THEN eq.isActive ELSE FALSE

\* eq.currentSetting || 0
settingOrZero(eq) == OrElse(settingOf(eq), Zero)

\* The four requests below are made for the first device of a filtered list
\* (heaters[0], fans[0]); the singleton set names it, so that it is computed
\* once.

\* variant: the heater switched on keeps the setting it had
activateHeater_KeepSetting(heaters) ==
  CHOOSE patch \in { [id |-> heater.id, body |-> [isActive |-> TRUE]] :
                       heater \in { heaters[1] } } : TRUE

\* lines 86-89 : activate the first available heater at 50%
activateHeater(heaters) ==
  CHOOSE patch \in { [id |-> heater.id,
                      body |-> [isActive |-> TRUE, currentSetting |-> I(50)]] :
                       heater \in { heaters[1] } } : TRUE

\* lines 92-95 : reduce the fan speed by 20, not below 20
slowFan(fans) ==
  CHOOSE patch \in { [id |-> fan.id,
                      body |-> [currentSetting |->
                                  RMax(I(20), RSub(settingOrZero(fan), I(20)))]] :
                       fan \in { fans[1] } } : TRUE

\* lines 104-108 : increase the fan speed by 20, not above 100
speedFan(fans) ==
  CHOOSE patch \in { [id |-> fan.id,
                      body |-> [isActive |-> TRUE,
                                currentSetting |->
                                  RMin(I(100), RAdd(settingOrZero(fan), I(20)))]] :
                       fan \in { fans[1] } } : TRUE

\* lines 111-114 : reduce the heater output by 20, not below 0
lowerHeater(heaters) ==
  CHOOSE patch \in { [id |-> heater.id,
                      body |-> [currentSetting |->
                                  RMax(I(0), RSub(settingOrZero(heater), I(20)))]] :
                       heater \in { heaters[1] } } : TRUE

\* the PATCH one advisory asks for against the equipment list displayed:
\* a sequence of none or one request
suggestionOf(rec, equipment) ==
  IF rec.action = "temperature_low"
  THEN LET heaters == SelectSeq(equipment,
                        LAMBDA eq : eq.type = "heater" /\ ~activeOf(eq))
           fans == SelectSeq(equipment,
                     LAMBDA eq : eq.type = "fan" /\ activeOf(eq)
                                 /\ RGt(settingOrZero(eq), I(50)))
       IN  IF Len(heaters) > 0 THEN <<activateHeater(heaters)>>
           ELSE IF Len(fans) > 0 THEN <<slowFan(fans)>>
           ELSE <<>>
  ELSE IF rec.action = "temperature_high"
  THEN LET fans == SelectSeq(equipment,
                     LAMBDA eq : eq.type = "fan" /\ RLt(settingOrZero(eq), I(80)))
           heaters == SelectSeq(equipment,
                        LAMBDA eq : eq.type = "heater" /\ activeOf(eq)
                                    /\ RGt(settingOrZero(eq), I(30)))
       IN  IF Len(fans) > 0 THEN <<speedFan(fans)>>
           ELSE IF Len(heaters) > 0 THEN <<lowerHeater(heaters)>>
           ELSE <<>>
  ELSE <<>>

\* PATCH /api/equipment/:id against the equipment map eqs: the map left and
\* the status answered
patchEquipment(eqs, id, body) ==
  LET updateData == updateEquipmentSchema(body)
  IN  IF ~updateData.success THEN [equipment |-> eqs, status |-> 400]
      ELSE IF id \notin DOMAIN eqs THEN [equipment |-> eqs, status |-> 404]
      ELSE [equipment |-> [eqs EXCEPT ![id] = Merge(@, updateData.data)],
            status |-> 200]

\* one turn of the for loop of lines 78-117: the request, if the advisory
\* asks for one, is sent and served; prev is the equipment map and the
\* requests sent so far
afterAdvisory(prev, patch) ==
  IF patch = <<>> THEN prev
  ELSE LET served == patchEquipment(prev.equipment, patch[1].id, patch[1].body)
       IN  [equipment |-> served.equipment,
            sent |-> Append(prev.sent, Merge(patch[1], [status |-> served.status]))]

\* the for loop of lines 78-117: every request is computed from the
\* equipment list the component was rendered with and served before the next
\* one is sent; run[k] is the outcome once the first k advisories have been
\* handled (the singleton sets name a value that is computed once).  Only the
\* first advisory of a list the route builds is a temperature advisory, so a
\* rejected request has no later request to cancel.
applyAll(recs, equipment, eqs) ==
  LET run[k \in 0..Len(recs)] ==
        IF k = 0 THEN [equipment |-> eqs, sent |-> <<>>]
        ELSE CHOOSE next \in { afterAdvisory(prev, patch) :
                                 prev \in { run[k - 1] },
                                 patch \in { suggestionOf(recs[k], equipment) } } :
               TRUE
  IN  run[Len(recs)]

\* the recommendation lists POST /api/calculate-environment can answer with,
\* and the empty list shown before it has answered
DisplayedLists ==
  { <<>>,
    <<advisory("temperature_low")>>,
    <<advisory("temperature_good")>>,
    <<advisory("temperature_high")>>,
    <<advisory("temperature_high"), advisory("optimize_energy")>> }

\* the farm whose dashboard is shown
DisplayedFarm == 1

\* one run of applyAISuggestions by a component rendered with the given
\* recommendations and the equipment list up to date
applyAISuggestions(recommendations) ==
  /\ pc = "listening"
  /\ \E equipment \in { getEquipmentByFarm(DisplayedFarm) } :
       \E run \in { applyAll(recommendations, equipment, storage.equipment) } :
         /\ args' = [recommendations |-> recommendations, equipment |-> equipment]
         /\ result' = [sent |-> run.sent]
         /\ storage' = [storage EXCEPT !.equipment = run.equipment]
  /\ UNCHANGED pc

MaxRuns == 2

AdviseInit ==
  /\ pc = "listening"
  /\ args = None
  /\ env = [served |-> 0, runs |-> 0]
  /\ result = None
  /\ storage = initializeData

\* a click on "Apply AI Suggestions", whatever the answer displayed
ApplyAISuggestions ==
  /\ env.runs < MaxRuns
  /\ \E recommendations \in DisplayedLists : applyAISuggestions(recommendations)
  /\ env' = [env EXCEPT !.runs = @ + 1]

\* environmental-controls.tsx : updateEquipmentMutation.mutate({ id, data })
mutateEquipment(id, data) ==
  LET served == patchEquipment(storage.equipment, id, data)
  IN  /\ pc = "listening"
      /\ env.served < MaxRequests
      /\ args' = request("PATCH", "/api/equipment/:id", id, data)
      /\ result' = response(served.status, <<>>)
      /\ storage' = [storage EXCEPT !.equipment = served.equipment]
      /\ env' = [env EXCEPT !.served = @ + 1]
      /\ UNCHANGED pc

\* the ON / OFF button of a fan, heater or inlet
ToggleEquipment ==
  \E id \in DOMAIN storage.equipment :
    mutateEquipment(id, [isActive |-> ~activeOf(storage.equipment[id])])

\* positions the range input of a device is moved to
SliderValues == { I(0), I(100) }

\* the range input of a fan, heater or inlet
SlideEquipment ==
  \E id \in DOMAIN storage.equipment, value \in SliderValues :
    mutateEquipment(id, [currentSetting |-> value])

AdviseNext == ToggleEquipment \/ SlideEquipment \/ ApplyAISuggestions

SpecAdvise == AdviseInit /\ [][AdviseNext]_vars

\* the state follows a run of applyAISuggestions
Applied == "recommendations" \in DOMAIN args

\* every item of an equipment list has a currentSetting within [0, 100]
SettingsInRange(equipment) ==
  \A i \in DOMAIN equipment :
    RGe(settingOrZero(equipment[i]), I(0)) /\ RLe(settingOrZero(equipment[i]), I(100))

\* the item of the list displayed that a request of the run addressed
Addressed(patch) ==
  LET i == CHOOSE j \in DOMAIN args.equipment : args.equipment[j].id = patch.id
  IN  args.equipment[i]

\* the advisories of a list that may ask for a PATCH
Patching(recs) ==
  { i \in DOMAIN recs : recs[i].action \in { "temperature_low", "temperature_high" } }

\* what the run sent stays within the advisories and within 0..100
SentWithinBounds ==
  /\ Len(result.sent) <= Cardinality(Patching(args.recommendations))
  /\ \A k \in DOMAIN result.sent :
       /\ "currentSetting" \in DOMAIN result.sent[k].body
       /\ RGe(result.sent[k].body.currentSetting, I(0))
       /\ RLe(result.sent[k].body.currentSetting, I(100))

\* the setting sent moves a device of the given type down (-1) or up (1)
Moves(patch, type, direction) ==
  /\ Addressed(patch).type = type
  /\ IF direction < 0
     THEN RLt(patch.body.currentSetting, settingOrZero(Addressed(patch)))
     ELSE RGt(patch.body.currentSetting, settingOrZero(Addressed(patch)))

\* C29 (as stated): when every equipment item has a currentSetting within
\* [0, 100], each run of applyAISuggestions sends at most one PATCH per
\* temperature_low or temperature_high advisory, every PATCH carries a
\* currentSetting within [0, 100], a temperature_low advisory never raises a
\* fan setting or lowers a heater setting, and a temperature_high advisory
\* never lowers a fan setting or raises a heater setting.
C29_NeverAgainstTheAdvisory ==
  Applied /\ SettingsInRange(args.equipment) =>
    /\ SentWithinBounds
    /\ \A k \in DOMAIN result.sent :
         /\ HasAction(args.recommendations, "temperature_low") =>
              ~Moves(result.sent[k], "fan", 1) /\ ~Moves(result.sent[k], "heater", -1)
         /\ HasAction(args.recommendations, "temperature_high") =>
              ~Moves(result.sent[k], "fan", -1) /\ ~Moves(result.sent[k], "heater", 1)

\* C29 (amended): under the same condition the run sends at most one PATCH
\* per temperature_low or temperature_high advisory, each with a
\* currentSetting within [0, 100]; a temperature_low advisory never raises a
\* fan setting and never patches an active heater: the heater it patches is
\* an inactive one, switched on at 50 whatever its setting was; a
\* temperature_high advisory never lowers a fan setting or raises a heater
\* setting.
C29_NeverAgainstTheAdvisoryWhenActive ==
  Applied /\ SettingsInRange(args.equipment) =>
    /\ SentWithinBounds
    /\ \A k \in DOMAIN result.sent :
         /\ HasAction(args.recommendations, "temperature_low") =>
              /\ ~Moves(result.sent[k], "fan", 1)
              /\ Addressed(result.sent[k]).type = "heater" =>
                   /\ ~activeOf(Addressed(result.sent[k]))
                   /\ result.sent[k].body = [isActive |-> TRUE, currentSetting |-> I(50)]
         /\ HasAction(args.recommendations, "temperature_high") =>
              ~Moves(result.sent[k], "fan", -1) /\ ~Moves(result.sent[k], "heater", 1)

\* a temperature_low run that switched on a heater left at 100
C29_Witness ==
  /\ Applied
  /\ HasAction(args.recommendations, "temperature_low")
  /\ Len(result.sent) = 1
  /\ Addressed(result.sent[1]).type = "heater"
  /\ settingOrZero(Addressed(result.sent[1])) = I(100)
  /\ result.sent[1].status = 200
  /\ storage.equipment[result.sent[1].id].currentSetting = I(50)

\* ------------------------------------------------------------------------
\* applyAISuggestions run again and again under one advisory
\* ------------------------------------------------------------------------
\* the answers that ask for a PATCH
SteadyLists ==
  { recs \in DisplayedLists : Patching(recs) # {} }

SteadyInit ==
  /\ pc = "listening"
  /\ args = None
  /\ env \in [served : { 0 }, recommendations : SteadyLists]
  /\ result = None
  /\ storage = initializeData

\* a click on "Apply AI Suggestions" while the answer displayed stays the
\* same and the equipment list has been refetched
RunAISuggestions ==
  /\ applyAISuggestions(env.recommendations)
  /\ UNCHANGED env

SteadyNext == PostEquipment \/ RunAISuggestions

\* every click that would change something is eventually made
SpecSteady == SteadyInit /\ [][SteadyNext]_vars /\ WF_vars(RunAISuggestions)

\* a further run would send no PATCH
Quiescent ==
  \A i \in DOMAIN env.recommendations :
    suggestionOf(env.recommendations[i], getEquipmentByFarm(DisplayedFarm)) = <<>>

\* C30: if the displayed temperature advisory stays the same (always
\* temperature_low, or always temperature_high) and the equipment list is
\* refreshed after each run, repeated runs of applyAISuggestions change
\* equipment only finitely many times: a state is eventually reached in
\* which a further run sends no PATCH.
C30_EventuallyQuiescent == <>Quiescent

====
